---- MODULE Spec2Model ----
(***************************************************************************)
(* WA Bill Tracker, baseline revision of app.js (src/app.js lines 1-1309): *)
(* APP_STATE, the cookie / localStorage persistence layer, the hash-based  *)
(* navigation, the filter engine and the pagination, as a state machine.   *)
(*                                                                         *)
(* JavaScript strings are sequences of one-character strings, so that      *)
(* toUpperCase, startsWith, split, replace and includes are computed and   *)
(* not assumed.  Enumeration tokens that the code only ever compares for    *)
(* equality (status and priority names, toast messages) are one-symbol     *)
(* sequences such as <<"committee">>.                                      *)
(***************************************************************************)
EXTENDS Integers, Sequences, FiniteSets, TLC

VARIABLES
    bills,            \* APP_STATE.bills, by the size of the document it was loaded from
    trackedBills,     \* APP_STATE.trackedBills, a Set in insertion order
    userNotes,        \* APP_STATE.userNotes
    filters,          \* APP_STATE.filters
    currentBillType,  \* APP_STATE.currentBillType
    userData,         \* APP_STATE.userData
    currentView,      \* APP_STATE.currentView
    page,             \* APP_STATE.pagination.page
    dirty,            \* APP_STATE._dirty
    cookies,          \* document.cookie, by cookie name
    fallback,         \* localStorage item 'wa_tracker_state'
    hash,             \* window.location.hash without the leading '#'
    hashEvents,       \* hashchange events dispatched and not yet handled
    timers,           \* pending timers: .highlight, the bill ids of setTimeout(highlightBill, 1000)
    ui,               \* DOM state the handlers read: .tagActive, the filter tags with class 'active'
    billsCache,       \* localStorage item 'billsData', by the size of the document
    pc,               \* position of the DOMContentLoaded handler
    fetches,          \* the fetches refreshData issued that have not resolved, in the order issued
    card,             \* the bill a card is built for, and the progress tracker built for it
    last              \* what the last operation did (observation only)

vars == <<bills, trackedBills, userNotes, filters, currentBillType, userData,
          currentView, page, dirty, cookies, fallback, hash, hashEvents,
          timers, ui, billsCache, pc, fetches, card, last>>

(***************************************************************************)
(* Bounds of the model.                                                    *)
(***************************************************************************)
NumBills == 30        \* size of the fetched bill collection
MaxTimers == 2        \* pending highlightBill timers
MaxHashEvents == 1    \* pending hashchange events
MaxFetches == 2       \* refresh fetches in flight

(***************************************************************************)
(* Strings.                                                                *)
(***************************************************************************)
Lowers == <<"a","b","c","d","e","f","g","h","i","j","k","l","m",
            "n","o","p","q","r","s","t","u","v","w","x","y","z">>
Uppers == <<"A","B","C","D","E","F","G","H","I","J","K","L","M",
            "N","O","P","Q","R","S","T","U","V","W","X","Y","Z">>

UpperChar(c) ==
    IF \E i \in 1..26 : Lowers[i] = c
    THEN Uppers[CHOOSE i \in 1..26 : Lowers[i] = c] ELSE c

LowerChar(c) ==
    IF \E i \in 1..26 : Uppers[i] = c
    THEN Lowers[CHOOSE i \in 1..26 : Uppers[i] = c] ELSE c

toUpperCase(s) == [i \in 1..Len(s) |-> UpperChar(s[i])]
toLowerCase(s) == [i \in 1..Len(s) |-> LowerChar(s[i])]

\* s.indexOf(p), 1-based; 0 when p does not occur
IndexOf(s, p) ==
    LET hits == {i \in 1..(Len(s) - Len(p) + 1) : SubSeq(s, i, i + Len(p) - 1) = p}
    IN IF hits = {} THEN 0 ELSE CHOOSE i \in hits : \A j \in hits : i <= j

startsWith(s, p) == Len(s) >= Len(p) /\ SubSeq(s, 1, Len(p)) = p
includes(s, p) == IndexOf(s, p) > 0

\* s.replace(p, '') : removes the first occurrence of p
replaceFirst(s, p) ==
    LET i == IndexOf(s, p)
    IN IF i = 0 THEN s ELSE SubSeq(s, 1, i - 1) \o SubSeq(s, i + Len(p), Len(s))

\* s.split(' ')[0]
splitFirst(s) ==
    LET i == IndexOf(s, <<" ">>)
    IN IF i = 0 THEN s ELSE SubSeq(s, 1, i - 1)

\* [a, b, ...].join(' ')
RECURSIVE joinSpace(_)
joinSpace(parts) ==
    IF Len(parts) = 0 THEN <<>>
    ELSE IF Len(parts) = 1 THEN parts[1]
    ELSE parts[1] \o <<" ">> \o joinSpace(Tail(parts))

\* decimal digits of a natural below 100
Digit(n) == <<"0","1","2","3","4","5","6","7","8","9">>[n + 1]
Digits(n) == IF n < 10 THEN <<Digit(n)>> ELSE <<Digit(n \div 10), Digit(n % 10)>>

sAll == <<"a","l","l">>
sBillPrefix == <<"b","i","l","l","-">>
sGarbage == <<"x","x","y">>
sNullText == <<"n","u","l","l">>

(***************************************************************************)
(* JavaScript values.                                                      *)
(***************************************************************************)
JNull == [k |-> "null"]
JUndef == [k |-> "undefined"]
JStr(s) == [k |-> "str", s |-> s]
JArr(a) == [k |-> "arr", a |-> a]
JBool(b) == [k |-> "bool", b |-> b]
JNum(n) == [k |-> "num", n |-> n]
JObj(m) == [k |-> "obj", m |-> m]

\* ToBoolean
Truthy(v) ==
    CASE v.k = "null" -> FALSE
      [] v.k = "undefined" -> FALSE
      [] v.k = "str" -> v.s # <<>>
      [] v.k = "bool" -> v.b
      [] OTHER -> TRUE

\* a || b
Or(a, b) == IF Truthy(a) THEN a ELSE b

\* typeof v === 'object'
TypeofObject(v) == v.k \in {"null", "arr", "obj"}

RECURSIVE Dedupe(_)
Dedupe(a) ==
    IF Len(a) = 0 THEN <<>>
    ELSE LET front == Dedupe(SubSeq(a, 1, Len(a) - 1))
             x == a[Len(a)]
         IN IF \E i \in 1..Len(front) : front[i] = x THEN front ELSE Append(front, x)

Iterable(v) == v.k \in {"arr", "str"}

\* new Set(v), for an iterable v: the distinct elements in first-occurrence order
\* (the elements of a string are its characters)
NewSet(v) ==
    IF v.k = "arr" THEN Dedupe(v.a)
    ELSE Dedupe([i \in 1..Len(v.s) |-> <<v.s[i]>>])

SetHas(set, x) == \E i \in 1..Len(set) : set[i] = x
SetAdd(set, x) == IF SetHas(set, x) THEN set ELSE Append(set, x)
SetDelete(set, x) == SelectSeq(set, LAMBDA y : y # x)
\* Array.from(set)
ArrayFrom(set) == JArr(set)

(***************************************************************************)
(* Configuration (APP_CONFIG) and the bill collection served by the data   *)
(* document.                                                               *)
(***************************************************************************)
PageSize == 25

sSB == <<"S","B">>
sHB == <<"H","B">>
sSJR == <<"S","J","R">>
sHJR == <<"H","J","R">>
sSJM == <<"S","J","M">>
sHJM == <<"H","J","M">>
sSCR == <<"S","C","R">>
sHCR == <<"H","C","R">>

\* the keys of APP_CONFIG.billTypes
BillTypeKeys == {sAll, sSB, sHB, sSJR, sHJR, sSJM, sHJM, sSCR, sHCR}

\* APP_CONFIG.billTypes[key] is truthy.  Every caller passes 'all' or an
\* upper-cased string, which is never the name of an inherited property.
ConfigHas(key) == key \in BillTypeKeys

\* The i-th bill of the data document: two Senate bills (one with a lower-case
\* number), House bills, and a last bill whose type is not configured.
BillTypeOf(i) ==
    IF i = 1 THEN sSB
    ELSE IF i = 2 THEN <<"s","b">>
    ELSE IF i = NumBills THEN <<"X","X">>
    ELSE sHB

BillId(i) == <<"b">> \o Digits(i)

sTax == <<"t","a","x">>
sRoad == <<"R","o","a","d">>

\* the raw statuses the bills of the document carry, in turn
Statuses ==
    << <<"committee">>, <<"opposite_committee">>, <<"passed">>, <<"floor">>,
       <<"opposite_floor">>, <<"passed_origin">>, <<"passed_legislature">>,
       <<"introduced">> >>

RawBill(i) ==
    [id |-> BillId(i),
     number |-> BillTypeOf(i) \o <<" ">> \o Digits(i),
     title |-> IF i % 2 = 0 THEN sTax ELSE sRoad,
     description |-> <<>>,
     sponsor |-> <<>>,
     status |-> Statuses[(i % Len(Statuses)) + 1],
     priority |-> IF i % 2 = 0 THEN <<"high">> ELSE <<"low">>,
     committee |-> IF i % 2 = 0 THEN <<"W","a","y","s">> ELSE <<"L","a","w">>]

\* loadBillsData: each bill of the document gets its _searchText
WithSearchText(b) ==
    [id |-> b.id, number |-> b.number, title |-> b.title,
     description |-> b.description, sponsor |-> b.sponsor, status |-> b.status,
     priority |-> b.priority, committee |-> b.committee,
     searchText |-> toLowerCase(joinSpace(<<b.number, b.title, b.description, b.sponsor>>))]

DocumentBills == [i \in 1..NumBills |-> RawBill(i)]
LoadedBills(docBills) == [i \in 1..Len(docBills) |-> WithSearchText(docBills[i])]

\* The collections APP_STATE.bills can hold, by the number of bills of the data
\* document they were loaded from: 0 is the empty collection, NumBills the
\* collection of the document of NumBills bills.
DocLoaded == LoadedBills(DocumentBills)
Collection(count) ==
    IF count = NumBills THEN DocLoaded
    ELSE IF count = 0 THEN <<>>
    ELSE LoadedBills([i \in 1..count |-> RawBill(i)])

(***************************************************************************)
(* APP_STATE as constructed (src/app.js lines 36-62).                      *)
(***************************************************************************)
DefaultFilters ==
    [k |-> "obj", search |-> JStr(<<>>), status |-> JArr(<<>>), priority |-> JArr(<<>>),
     committee |-> JArr(<<>>), type |-> JStr(<<>>), trackedOnly |-> JBool(FALSE)]

sGuest == <<"Guest User">>
sUserId == <<"user_1">>
DefaultUserData == [k |-> "obj", name |-> JStr(sGuest), avatar |-> JStr(<<"?">>), id |-> JNull]

EmptyNotes == JObj([x \in {} |-> <<>>])

(***************************************************************************)
(* CookieManager and the two persistence channels.  A stored text is       *)
(* absent, the JSON text of a value (JSON.parse yields that value), a text  *)
(* that is not JSON (JSON.parse throws), or a text with a malformed         *)
(* percent-escape (decodeURIComponent throws).  JSON.stringify followed by  *)
(* JSON.parse returns an equal value for every value save() passes:        *)
(* strings, booleans, null, arrays and plain objects of these.             *)
(***************************************************************************)
CookieNames == {"tracked", "notes", "user", "filters", "bill_type", "user_id", "user_name"}
StateCookies == {"tracked", "notes", "user", "filters", "bill_type"}

Absent == [t |-> "absent"]
JsonText(v) == [t |-> "json", v |-> v]
RawText(s) == [t |-> "raw", s |-> s]
BadEnc == [t |-> "badenc"]

\* the text of a string written as it is: JSON only if it spells a JSON literal
TextOfString(s) == IF s = sNullText THEN JsonText(JNull) ELSE RawText(s)

\* CookieManager.set stores JSON.stringify(value) for objects (null, arrays and
\* plain objects) and the value itself otherwise
CookieText(value) ==
    IF TypeofObject(value) THEN JsonText(value)
    ELSE IF value.k = "str" THEN TextOfString(value.s)
    ELSE RawText(<<value.k>>)

CookieGetThrows(jar, name) == jar[name] = BadEnc

\* CookieManager.get when it does not throw: null for a missing cookie, the
\* parsed value, or the raw string when JSON.parse fails
CookieGet(jar, name) ==
    LET c == jar[name]
    IN CASE c.t = "absent" -> JNull
         [] c.t = "json" -> c.v
         [] c.t = "raw" -> JStr(c.s)
         [] OTHER -> JNull

EmptyJar == [n \in CookieNames |-> Absent]

\* obj[key] for the keys of the filter state; a primitive has no such property
FilterField(f, key) ==
    IF f.k # "obj" THEN JUndef
    ELSE CASE key = "status" -> f.status
           [] key = "priority" -> f.priority
           [] key = "committee" -> f.committee
           [] key = "type" -> f.type
           [] key = "search" -> f.search
           [] OTHER -> f.trackedOnly

\* one key of migrateFiltersToArrays
MigratedValue(val) ==
    IF val.k = "str" THEN (IF Truthy(val) THEN JArr(<<val.s>>) ELSE JArr(<<>>))
    ELSE IF val.k # "arr" THEN JArr(<<>>)
    ELSE val

\* migrateFiltersToArrays; the script is not in strict mode, so assigning a
\* property of a primitive string does nothing
migrateFiltersToArrays(f) ==
    IF f.k # "obj" THEN f
    ELSE [f EXCEPT !.status = MigratedValue(f.status),
                   !.priority = MigratedValue(f.priority),
                   !.committee = MigratedValue(f.committee)]

\* The persisted part of APP_STATE, as a record
Persisted(t, n, u, f, b) ==
    [trackedBills |-> t, userNotes |-> n, userData |-> u, filters |-> f, currentBillType |-> b]

\* a save that leaves the notes cookie as it was
SaveCookies_withoutNotes(S, jar) ==
    [jar EXCEPT !["tracked"] = CookieText(ArrayFrom(S.trackedBills)),
                !["user"] = CookieText(S.userData),
                !["filters"] = CookieText(S.filters),
                !["bill_type"] = CookieText(S.currentBillType)]

\* StorageManager.save, primary channel
SaveCookies(S, jar) ==
    [jar EXCEPT !["tracked"] = CookieText(ArrayFrom(S.trackedBills)),
                !["notes"] = CookieText(S.userNotes),
                !["user"] = CookieText(S.userData),
                !["filters"] = CookieText(S.filters),
                !["bill_type"] = CookieText(S.currentBillType)]

\* StorageManager.save, fallback channel (lastSaved is a timestamp, left out)
SaveFallback(S) ==
    JsonText([k |-> "obj", trackedBills |-> ArrayFrom(S.trackedBills), userNotes |-> S.userNotes,
              userData |-> S.userData, filters |-> S.filters,
              currentBillType |-> S.currentBillType])

\* The outcome of StorageManager.load: what it returns, whether an exception
\* reached its catch block, whether it called save(), and the state and
\* channels it leaves
LoadOutcome(ret, caught, saved, S, jar, fb) ==
    [ret |-> ret, caught |-> caught, saved |-> saved, S |-> S, jar |-> jar, fb |-> fb]

\* if (saved) : localStorage.getItem gives null or the stored string
FallbackTruthy(fb) == fb.t = "json" \/ fb.t = "badenc" \/ (fb.t = "raw" /\ fb.s # <<>>)

\* data.<key> of the parsed fallback document
DocField(data, key) ==
    IF data.k # "obj" THEN JUndef
    ELSE CASE key = "trackedBills" -> data.trackedBills
           [] key = "userNotes" -> data.userNotes
           [] key = "userData" -> data.userData
           [] key = "filters" -> data.filters
           [] OTHER -> data.currentBillType

\* StorageManager.load, the branch taken when a core cookie is truthy
LoadFromCookies(S, jar, fb) ==
    LET t == Or(CookieGet(jar, "tracked"), JArr(<<>>))
    IN IF ~Iterable(t) THEN LoadOutcome(FALSE, TRUE, FALSE, S, jar, fb)
       ELSE LoadOutcome(TRUE, FALSE, FALSE,
                Persisted(NewSet(t),
                          Or(CookieGet(jar, "notes"), EmptyNotes),
                          Or(CookieGet(jar, "user"), S.userData),
                          migrateFiltersToArrays(Or(CookieGet(jar, "filters"), S.filters)),
                          Or(CookieGet(jar, "bill_type"), JStr(sAll))),
                jar, fb)

\* a fallback branch that does not write what it restored
LoadFromFallback_noMigration(S, jar, fb) ==
    IF fb.t # "json" \/ fb.v.k \in {"null", "undefined"}
    THEN LoadOutcome(FALSE, TRUE, FALSE, S, jar, fb)
    ELSE LET t == Or(DocField(fb.v, "trackedBills"), JArr(<<>>))
             S2 == Persisted(NewSet(t),
                             Or(DocField(fb.v, "userNotes"), EmptyNotes),
                             Or(DocField(fb.v, "userData"), S.userData),
                             migrateFiltersToArrays(Or(DocField(fb.v, "filters"), S.filters)),
                             Or(DocField(fb.v, "currentBillType"), JStr(sAll)))
         IN IF ~Iterable(t) THEN LoadOutcome(FALSE, TRUE, FALSE, S, jar, fb)
            ELSE LoadOutcome(TRUE, FALSE, FALSE, S2, jar, fb)

\* StorageManager.load, the fallback branch: parse, assign, migrate to cookies
LoadFromFallback(S, jar, fb) ==
    IF fb.t # "json" \/ fb.v.k \in {"null", "undefined"}
    THEN LoadOutcome(FALSE, TRUE, FALSE, S, jar, fb)
    ELSE LET t == Or(DocField(fb.v, "trackedBills"), JArr(<<>>))
             S2 == Persisted(NewSet(t),
                             Or(DocField(fb.v, "userNotes"), EmptyNotes),
                             Or(DocField(fb.v, "userData"), S.userData),
                             migrateFiltersToArrays(Or(DocField(fb.v, "filters"), S.filters)),
                             Or(DocField(fb.v, "currentBillType"), JStr(sAll)))
         IN IF ~Iterable(t) THEN LoadOutcome(FALSE, TRUE, FALSE, S, jar, fb)
            ELSE LoadOutcome(TRUE, FALSE, TRUE, S2, SaveCookies(S2, jar), SaveFallback(S2))

\* a primary channel that is never authoritative
CoreCookieFound_never(jar) == FALSE

\* the test that makes the primary channel authoritative
CoreCookieFound(jar) ==
    \/ Truthy(CookieGet(jar, "tracked"))
    \/ Truthy(CookieGet(jar, "notes"))
    \/ Truthy(CookieGet(jar, "user"))

\* StorageManager.load
StorageLoad(S, jar, fb) ==
    IF \E n \in StateCookies : CookieGetThrows(jar, n) THEN LoadOutcome(FALSE, TRUE, FALSE, S, jar, fb)
    ELSE IF CoreCookieFound(jar) THEN LoadFromCookies(S, jar, fb)
    ELSE IF FallbackTruthy(fb) THEN LoadFromFallback(S, jar, fb)
    ELSE LoadOutcome(FALSE, FALSE, FALSE, S, jar, fb)

(***************************************************************************)
(* Filter engine (filterBills, src/app.js lines 640-709).  Each step takes  *)
(* the bills kept so far.                                                  *)
(***************************************************************************)
\* APP_STATE.filters.search = ''
SetFilterFieldSearch(f) == IF f.k # "obj" THEN f ELSE [f EXCEPT !.search = JStr(<<>>)]

\* a bill-type page that keeps every bill
StepBillType_keepsAll(seq, curType) == seq

\* the bill-type page: skipped for a falsy type and for 'all'
StepBillType(seq, curType) ==
    IF Truthy(curType) /\ toLowerCase(curType.s) # sAll
    THEN SelectSeq(seq, LAMBDA b : toUpperCase(splitFirst(b.number)) = toUpperCase(curType.s))
    ELSE seq

StepSearch(seq, f) ==
    LET search == FilterField(f, "search")
    IN IF Truthy(search)
       THEN SelectSeq(seq, LAMBDA b : includes(b.searchText, toLowerCase(search.s)))
       ELSE seq

\* a status step without the alias table
StatusAliases_itself(st) == {st}

\* statusAliases[s] || [s]
StatusAliases(st) ==
    CASE st = <<"committee">> -> {<<"committee">>, <<"opposite_committee">>}
      [] st = <<"floor">> -> {<<"floor">>, <<"opposite_floor">>}
      [] st = <<"passed_origin">> -> {<<"passed_origin">>, <<"passed">>, <<"passed_legislature">>}
      [] st = <<"passed">> -> {<<"passed">>, <<"passed_origin">>, <<"passed_legislature">>}
      [] OTHER -> {st}

\* x && x.length > 0, for the array-valued filter fields
NonEmptyArray(v) == v.k = "arr" /\ Len(v.a) > 0

StepStatus(seq, f) ==
    LET st == FilterField(f, "status")
    IN IF NonEmptyArray(st)
       THEN LET expandedStatuses == UNION {StatusAliases(st.a[i]) : i \in 1..Len(st.a)}
            IN SelectSeq(seq, LAMBDA b : b.status \in expandedStatuses)
       ELSE seq

StepPriority(seq, f) ==
    LET pr == FilterField(f, "priority")
    IN IF NonEmptyArray(pr)
       THEN SelectSeq(seq, LAMBDA b : \E i \in 1..Len(pr.a) : pr.a[i] = b.priority)
       ELSE seq

\* a committee step that asks for every selected value
StepCommittee_every(seq, f) ==
    LET cm == FilterField(f, "committee")
    IN IF NonEmptyArray(cm)
       THEN SelectSeq(seq, LAMBDA b :
                \A i \in 1..Len(cm.a) : includes(toLowerCase(b.committee), cm.a[i]))
       ELSE seq

StepCommittee(seq, f) ==
    LET cm == FilterField(f, "committee")
    IN IF NonEmptyArray(cm)
       THEN SelectSeq(seq, LAMBDA b :
                \E i \in 1..Len(cm.a) : includes(toLowerCase(b.committee), cm.a[i]))
       ELSE seq

\* the manual type filter: billType === APP_STATE.filters.type, which no string
\* satisfies when filters.type is an array
StepType(seq, f) ==
    LET ty == FilterField(f, "type")
    IN IF Truthy(ty)
       THEN SelectSeq(seq, LAMBDA b : ty.k = "str" /\ splitFirst(b.number) = ty.s)
       ELSE seq

StepTrackedOnly(seq, f, tracked) ==
    IF Truthy(FilterField(f, "trackedOnly"))
    THEN SelectSeq(seq, LAMBDA b : SetHas(tracked, b.id))
    ELSE seq

\* a filterBills without the tracked-only step
filterBills_withoutTrackedOnly(all, curType, f, tracked) ==
    StepType(
        StepCommittee(
            StepPriority(
                StepStatus(
                    StepSearch(
                        StepBillType(all, curType), f), f), f), f), f)

filterBills(all, curType, f, tracked) ==
    StepTrackedOnly(
        StepType(
            StepCommittee(
                StepPriority(
                    StepStatus(
                        StepSearch(
                            StepBillType(all, curType), f), f), f), f), f), f, tracked)

\* a filterBills that clears the search text once it has used it
filterBillsCall_consumesSearch(M, all) ==
    [M |-> [M EXCEPT !.filters = SetFilterFieldSearch(@)],
     filtered |-> filterBills(all, M.currentBillType, M.filters, M.trackedBills)]

\* a call of filterBills(): APP_STATE after the call, and the array returned
filterBillsCall(M, all) ==
    [M |-> M,
     filtered |-> filterBills(all, M.currentBillType, M.filters, M.trackedBills)]

\* Array.prototype.findIndex on the id, 1-based; 0 when no bill has the id
FindIndexById(seq, id) ==
    LET hits == {i \in 1..Len(seq) : seq[i].id = id}
    IN IF hits = {} THEN 0 ELSE CHOOSE i \in hits : \A j \in hits : i <= j

\* Math.ceil(n / size)
CeilDiv(n, size) == (n + size - 1) \div size

\* the slice renderBills paints
PageSlice(seq, p) ==
    SubSeq(seq, (p - 1) * PageSize + 1, IF p * PageSize < Len(seq) THEN p * PageSize ELSE Len(seq))

(***************************************************************************)
(* Bill cards: the stage of a bill and its two-section progress tracker     *)
(* (src/app.js lines 475-580).  A bill is given by the fields these read:   *)
(* status, historyLine and originalAgency, each a string or missing.        *)
(***************************************************************************)
\* no status of the two vocabularies
NoStage == 99

\* the comparisons of the lower-cased status, the granular statuses first,
\* then the legacy ones; 'prefiled' is compared with nothing
StatusStage(status) ==
    IF status = <<"e", "n", "a", "c", "t", "e", "d">> THEN 8
    ELSE IF status = <<"g", "o", "v", "e", "r", "n", "o", "r">> THEN 7
    ELSE IF status = <<"p", "a", "s", "s", "e", "d", "_", "l", "e", "g", "i", "s", "l", "a", "t", "u", "r", "e">> THEN 7
    ELSE IF status = <<"o", "p", "p", "o", "s", "i", "t", "e", "_", "f", "l", "o", "o", "r">> THEN 6
    ELSE IF status = <<"o", "p", "p", "o", "s", "i", "t", "e", "_", "c", "o", "m", "m", "i", "t", "t", "e", "e">> THEN 5
    ELSE IF status = <<"p", "a", "s", "s", "e", "d", "_", "o", "r", "i", "g", "i", "n">> THEN 4
    ELSE IF status = <<"f", "l", "o", "o", "r">> THEN 3
    ELSE IF status = <<"v", "e", "t", "o", "e", "d">> THEN -2
    ELSE IF status = <<"f", "a", "i", "l", "e", "d">> THEN -1
    ELSE IF status = <<"p", "a", "s", "s", "e", "d">> THEN 4
    ELSE IF status = <<"c", "o", "m", "m", "i", "t", "t", "e", "e">> THEN 2
    ELSE IF status = <<"i", "n", "t", "r", "o", "d", "u", "c", "e", "d">> THEN 1
    ELSE NoStage

\* a history scan that looks for a referral before anything else
HistoryStage_referralFirst(history) ==
    IF includes(history, <<"r", "e", "f", "e", "r", "r", "e", "d", " ", "t", "o">>) THEN 2
    ELSE IF includes(history, <<"e", "f", "f", "e", "c", "t", "i", "v", "e", " ", "d", "a", "t", "e">>) \/ includes(history, <<"g", "o", "v", "e", "r", "n", "o", "r", " ", "s", "i", "g", "n", "e", "d">>) THEN 8
    ELSE IF includes(history, <<"d", "e", "l", "i", "v", "e", "r", "e", "d", " ", "t", "o", " ", "g", "o", "v", "e", "r", "n", "o", "r">>) THEN 7
    ELSE IF includes(history, <<"t", "h", "i", "r", "d", " ", "r", "e", "a", "d", "i", "n", "g">>) /\ includes(history, <<"p", "a", "s", "s", "e", "d">>) THEN 4
    ELSE IF includes(history, <<"s", "e", "c", "o", "n", "d", " ", "r", "e", "a", "d", "i", "n", "g">>) \/ includes(history, <<"t", "h", "i", "r", "d", " ", "r", "e", "a", "d", "i", "n", "g">>) THEN 3
    ELSE IF includes(history, <<"r", "u", "l", "e", "s", " ", "c", "o", "m", "m", "i", "t", "t", "e", "e">>) \/ includes(history, <<"p", "l", "a", "c", "e", "d", " ", "o", "n">>) THEN 3
    ELSE IF includes(history, <<"f", "i", "r", "s", "t", " ", "r", "e", "a", "d", "i", "n", "g">>) THEN 1
    ELSE 0

\* the fallback: the first phrase found in the lower-cased historyLine
HistoryStage(history) ==
    IF includes(history, <<"e", "f", "f", "e", "c", "t", "i", "v", "e", " ", "d", "a", "t", "e">>) \/ includes(history, <<"g", "o", "v", "e", "r", "n", "o", "r", " ", "s", "i", "g", "n", "e", "d">>) THEN 8
    ELSE IF includes(history, <<"d", "e", "l", "i", "v", "e", "r", "e", "d", " ", "t", "o", " ", "g", "o", "v", "e", "r", "n", "o", "r">>) THEN 7
    ELSE IF includes(history, <<"t", "h", "i", "r", "d", " ", "r", "e", "a", "d", "i", "n", "g">>) /\ includes(history, <<"p", "a", "s", "s", "e", "d">>) THEN 4
    ELSE IF includes(history, <<"s", "e", "c", "o", "n", "d", " ", "r", "e", "a", "d", "i", "n", "g">>) \/ includes(history, <<"t", "h", "i", "r", "d", " ", "r", "e", "a", "d", "i", "n", "g">>) THEN 3
    ELSE IF includes(history, <<"r", "u", "l", "e", "s", " ", "c", "o", "m", "m", "i", "t", "t", "e", "e">>) \/ includes(history, <<"p", "l", "a", "c", "e", "d", " ", "o", "n">>) THEN 3
    ELSE IF includes(history, <<"r", "e", "f", "e", "r", "r", "e", "d", " ", "t", "o">>) THEN 2
    ELSE IF includes(history, <<"f", "i", "r", "s", "t", " ", "r", "e", "a", "d", "i", "n", "g">>) THEN 1
    ELSE 0

\* (v || '').toLowerCase(), for a string or a missing field
LowerOrEmpty(v) == toLowerCase(Or(v, JStr(<<>>)).s)

\* a stage index that counts a signed bill as a ninth stage
getBillStageIndex_ninthStage(bill) ==
    LET st == StatusStage(LowerOrEmpty(bill.status))
    IN IF st # NoStage THEN st
       ELSE IF HistoryStage(LowerOrEmpty(bill.historyLine)) = 8 THEN 9
       ELSE HistoryStage(LowerOrEmpty(bill.historyLine))

\* getBillStageIndex(bill)
getBillStageIndex(bill) ==
    LET status == LowerOrEmpty(bill.status)
        history == LowerOrEmpty(bill.historyLine)
    IN IF StatusStage(status) # NoStage THEN StatusStage(status) ELSE HistoryStage(history)

\* an anchor that is inferred from the history for a vetoed bill as well
FailedAt_vetoedFromHistory(bill, isVetoed) ==
    LET history == LowerOrEmpty(bill.historyLine)
    IN IF includes(history, <<"t", "h", "i", "r", "d", " ", "r", "e", "a", "d", "i", "n", "g">>) \/ includes(history, <<"f", "l", "o", "o", "r">>) THEN 3
       ELSE IF includes(history, <<"c", "o", "m", "m", "i", "t", "t", "e", "e">>) \/ includes(history, <<"r", "e", "f", "e", "r", "r", "e", "d">>) THEN 2
       ELSE 1

\* failedAt of a failed or vetoed bill: how far the bill got
FailedAt(bill, isVetoed) ==
    LET history == LowerOrEmpty(bill.historyLine)
    IN IF isVetoed THEN 7
       ELSE IF includes(history, <<"t", "h", "i", "r", "d", " ", "r", "e", "a", "d", "i", "n", "g">>) \/ includes(history, <<"f", "l", "o", "o", "r">>) THEN 3
       ELSE IF includes(history, <<"c", "o", "m", "m", "i", "t", "t", "e", "e">>) \/ includes(history, <<"r", "e", "f", "e", "r", "r", "e", "d">>) THEN 2
       ELSE IF includes(history, <<"f", "i", "r", "s", "t", " ", "r", "e", "a", "d", "i", "n", "g">>) THEN 1
       ELSE 1

originStages == <<0, 1, 2, 3, 4>>
finalStages == <<5, 6, 7, 8>>

\* a section whose connectors ignore that the bill was terminated
renderSection_linesOfTerminated(stages, label, effectiveIndex, failedAt, isFailed, isVetoed) ==
    [label |-> label,
     steps |-> [i \in 1..Len(stages) |->
        LET idx == stages[i]
        IN [idx |-> idx,
            line |-> IF i = 1 THEN "none"
                     ELSE IF effectiveIndex >= idx THEN "completed" ELSE "plain",
            cls |-> IF (isFailed \/ isVetoed) /\ idx = failedAt
                    THEN (IF isFailed THEN "failed" ELSE "vetoed")
                    ELSE IF effectiveIndex > idx THEN "completed"
                    ELSE IF effectiveIndex = idx /\ ~(isFailed \/ isVetoed)
                    THEN (IF idx = 8 THEN "enacted" ELSE "active")
                    ELSE ""]]]

\* renderSection(stages, sectionLabel): per stage, the connector drawn before
\* it (none before the first of a section) and the class of its node
renderSection(stages, label, effectiveIndex, failedAt, isFailed, isVetoed) ==
    [label |-> label,
     steps |-> [i \in 1..Len(stages) |->
        LET idx == stages[i]
            lineOn == effectiveIndex >= idx /\ ~(isFailed \/ isVetoed)
        IN [idx |-> idx,
            line |-> IF i = 1 THEN "none" ELSE IF lineOn THEN "completed" ELSE "plain",
            cls |-> IF (isFailed \/ isVetoed) /\ idx = failedAt
                    THEN (IF isFailed THEN "failed" ELSE "vetoed")
                    ELSE IF effectiveIndex > idx THEN "completed"
                    ELSE IF effectiveIndex = idx /\ ~(isFailed \/ isVetoed)
                    THEN (IF idx = 8 THEN "enacted" ELSE "active")
                    ELSE ""]]]

buildProgressTracker_rawIndex(bill) ==
    LET agency == LowerOrEmpty(bill.originalAgency)
        originLabel == IF agency = <<"s", "e", "n", "a", "t", "e">> THEN "Senate" ELSE "House"
        oppositeLabel == IF agency = <<"s", "e", "n", "a", "t", "e">> THEN "House" ELSE "Senate"
        stageIndex == getBillStageIndex(bill)
        isFailed == stageIndex = -1
        isVetoed == stageIndex = -2
        failedAt == IF isFailed \/ isVetoed THEN FailedAt(bill, isVetoed) ELSE 0
    IN <<renderSection(originStages, originLabel, stageIndex, failedAt, isFailed, isVetoed),
         renderSection(finalStages, oppositeLabel, stageIndex, failedAt, isFailed, isVetoed)>>

\* buildProgressTracker(bill): the two sections, origin chamber first
buildProgressTracker(bill) ==
    LET agency == LowerOrEmpty(bill.originalAgency)
        originLabel == IF agency = <<"s", "e", "n", "a", "t", "e">> THEN "Senate" ELSE "House"
        oppositeLabel == IF agency = <<"s", "e", "n", "a", "t", "e">> THEN "House" ELSE "Senate"
        stageIndex == getBillStageIndex(bill)
        isFailed == stageIndex = -1
        isVetoed == stageIndex = -2
        failedAt == IF isFailed \/ isVetoed THEN FailedAt(bill, isVetoed) ELSE 0
        effectiveIndex == IF isFailed \/ isVetoed THEN failedAt ELSE stageIndex
    IN <<renderSection(originStages, originLabel, effectiveIndex, failedAt, isFailed, isVetoed),
         renderSection(finalStages, oppositeLabel, effectiveIndex, failedAt, isFailed, isVetoed)>>

(***************************************************************************)
(* The handlers, as functions of a machine record M: the mutable state a    *)
(* handler reads and writes, plus what it did (renders of the main view,    *)
(* save() calls, fragment writes, type transitions carried out, toasts, an  *)
(* uncaught exception).                                                     *)
(***************************************************************************)
Cur ==
    [trackedBills |-> trackedBills, userNotes |-> userNotes, userData |-> userData,
     filters |-> filters, currentBillType |-> currentBillType,
     currentView |-> currentView, page |-> page, dirty |-> dirty,
     cookies |-> cookies, fallback |-> fallback, hash |-> hash,
     hashEvents |-> hashEvents, timers |-> timers, ui |-> ui,
     renders |-> 0, saves |-> 0, hashWrites |-> 0, navs |-> 0, toasts |-> <<>>,
     threw |-> FALSE]

PersistedOf(M) ==
    Persisted(M.trackedBills, M.userNotes, M.userData, M.filters, M.currentBillType)

\* StorageManager.save()
Save(M) ==
    [M EXCEPT !.cookies = SaveCookies(PersistedOf(M), M.cookies),
              !.fallback = SaveFallback(PersistedOf(M)),
              !.saves = @ + 1]

\* updateUI: the bill grid is painted only in the main view
updateUI(M) == IF M.currentView = "main" THEN [M EXCEPT !.renders = @ + 1] ELSE M

showToast(M, msg) == [M EXCEPT !.toasts = Append(@, msg)]

tAdded == <<"Bill added to tracking">>
tRemoved == <<"Bill removed from tracking">>
tLoaded == <<"Loaded bills">>
tCached == <<"Using cached data">>
tNoData == <<"No bill data available">>
tNoteSaved == <<"Note saved">>
tNotFound == <<"Bill not found">>

\* APP_STATE.filters[key] = v ; nothing happens when filters is a primitive
SetFilterField(f, key, v) ==
    IF f.k # "obj" THEN f
    ELSE CASE key = "status" -> [f EXCEPT !.status = v]
           [] key = "priority" -> [f EXCEPT !.priority = v]
           [] key = "committee" -> [f EXCEPT !.committee = v]
           [] key = "type" -> [f EXCEPT !.type = v]
           [] key = "search" -> [f EXCEPT !.search = v]
           [] OTHER -> [f EXCEPT !.trackedOnly = v]

\* the type a request is normalised to: 'all' or upper case, 'all' if not configured
NormalizeType(type) ==
    LET normalizedType == IF toLowerCase(type) = sAll THEN sAll ELSE toUpperCase(type)
    IN IF ConfigHas(normalizedType) THEN normalizedType ELSE sAll

\* no guard at all
NavGuard_never(M, type) == FALSE

\* a guard that looks at the bill type only
NavGuard_typeOnly(M, type) == M.currentBillType = JStr(type)

\* the early return of navigateToBillType
NavGuard(M, type) == M.currentBillType = JStr(type) /\ M.currentView = "main"

\* window.location.hash = newHash, when it differs: the fragment changes and a
\* hashchange event is dispatched
WriteHash(M, newHash) ==
    IF M.hash # newHash
    THEN [M EXCEPT !.hash = newHash, !.hashWrites = @ + 1, !.hashEvents = @ + 1]
    ELSE M

\* a fragment written in the case of the type
NewHash_asGiven(type) == type

\* const newHash = type.toLowerCase()
NewHash(type) == toLowerCase(type)

\* the tags of the manual type filter lose the class 'active'
ClearTypeTags(u) == [u EXCEPT !.tagActive = {g \in @ : g.filter # "type"}]

\* navigateToBillType(type), for a string type
navigateToBillType(M, requested) ==
    LET type == NormalizeType(requested)
    IN IF NavGuard(M, type) THEN M
       ELSE LET M1 == [M EXCEPT !.currentBillType = JStr(type), !.currentView = "main",
                                    !.navs = @ + 1]
                M2 == WriteHash(M1, NewHash(type))
                M3 == IF type # sAll
                      THEN [M2 EXCEPT !.filters = SetFilterField(@, "type", JStr(<<>>)),
                                      !.ui = ClearTypeTags(@)]
                      ELSE M2
                M4 == [M3 EXCEPT !.page = 1]
            IN updateUI(Save(M4))

\* a handler that leaves the view alone for a fragment it does not know
handleHashChange_keepsView(M) ==
    IF startsWith(M.hash, sBillPrefix)
    THEN [M EXCEPT !.timers.highlight = Append(@, replaceFirst(M.hash, sBillPrefix))]
    ELSE LET billType == IF M.hash # <<>>
                         THEN (IF toLowerCase(M.hash) = sAll THEN sAll ELSE toUpperCase(M.hash))
                         ELSE sAll
         IN IF ConfigHas(billType) THEN navigateToBillType(M, billType) ELSE M

\* handleHashChange
handleHashChange(M) ==
    IF startsWith(M.hash, sBillPrefix)
    THEN [M EXCEPT !.timers.highlight = Append(@, replaceFirst(M.hash, sBillPrefix))]
    ELSE LET billType == IF M.hash # <<>>
                         THEN (IF toLowerCase(M.hash) = sAll THEN sAll ELSE toUpperCase(M.hash))
                         ELSE sAll
         IN IF ConfigHas(billType) THEN navigateToBillType(M, billType)
            ELSE navigateToBillType(M, sAll)

\* checkForSharedBill
checkForSharedBill(M) ==
    IF M.hash # <<>> /\ startsWith(<<"#">> \o M.hash, <<"#">> \o sBillPrefix)
    THEN [M EXCEPT !.timers.highlight =
                       Append(@, replaceFirst(<<"#">> \o M.hash, <<"#">> \o sBillPrefix))]
    ELSE M

\* showMainView
showMainView(M) == updateUI([M EXCEPT !.currentView = "main"])

\* a jump that leaves the filters as they are
highlightBill_keepsFilters(M, all, billId) ==
    LET i == FindIndexById(all, billId)
        M1 == IF i > 0 THEN navigateToBillType(M, splitFirst(all[i].number)) ELSE M
        filtered == filterBills(all, M1.currentBillType, M1.filters, M1.trackedBills)
        index == FindIndexById(filtered, billId)
        M3 == IF index > 0 THEN [M1 EXCEPT !.page = ((index - 1) \div PageSize) + 1] ELSE M1
    IN showMainView(M3)

\* highlightBill(billId), up to the scrolling it defers by 100 ms (which
\* changes no state and shows no toast)
highlightBill(M, all, billId) ==
    LET i == FindIndexById(all, billId)
        M1 == IF i > 0 THEN navigateToBillType(M, splitFirst(all[i].number)) ELSE M
        M2 == [M1 EXCEPT !.filters = DefaultFilters]
        filtered == filterBills(all, M2.currentBillType, M2.filters, M2.trackedBills)
        index == FindIndexById(filtered, billId)
        M3 == IF index > 0 THEN [M2 EXCEPT !.page = ((index - 1) \div PageSize) + 1] ELSE M2
    IN showMainView(M3)

\* syncFilterTagUI: a tag is active iff its filter field is an array holding its value
syncFilterTagUI(M, tags) ==
    [M EXCEPT !.ui.tagActive =
        {g \in tags : LET v == FilterField(M.filters, g.filter)
                      IN v.k = "arr" /\ \E i \in 1..Len(v.a) : v.a[i] = g.value}]

\* a toggleTrack that only ever adds
toggleTrack_addOnly(M, billId) ==
    LET M1 == showToast([M EXCEPT !.trackedBills = SetAdd(@, billId)], tAdded)
        M2 == Save([M1 EXCEPT !.dirty = TRUE])
    IN updateUI([M2 EXCEPT !.dirty = FALSE])

\* a toggleTrack that leaves the dirty flag set
toggleTrack_leavesDirty(M, billId) ==
    LET M1 == IF SetHas(M.trackedBills, billId)
              THEN showToast([M EXCEPT !.trackedBills = SetDelete(@, billId)], tRemoved)
              ELSE showToast([M EXCEPT !.trackedBills = SetAdd(@, billId)], tAdded)
    IN updateUI(Save([M1 EXCEPT !.dirty = TRUE]))

\* toggleTrack(billId)
toggleTrack(M, billId) ==
    LET M1 == IF SetHas(M.trackedBills, billId)
              THEN showToast([M EXCEPT !.trackedBills = SetDelete(@, billId)], tRemoved)
              ELSE showToast([M EXCEPT !.trackedBills = SetAdd(@, billId)], tAdded)
        M2 == Save([M1 EXCEPT !.dirty = TRUE])
    IN updateUI([M2 EXCEPT !.dirty = FALSE])

\* the click handler of a filter tag
filterTagClick(M, tag) ==
    LET val == FilterField(M.filters, tag.filter)
    IN IF tag \in M.ui.tagActive
       THEN LET M1 == [M EXCEPT !.ui.tagActive = @ \ {tag}]
            IN IF val.k # "arr" THEN [M1 EXCEPT !.threw = TRUE]
               ELSE LET M2 == [M1 EXCEPT !.filters = SetFilterField(@, tag.filter,
                                      JArr(SelectSeq(val.a, LAMBDA v : v # tag.value))),
                                         !.page = 1, !.dirty = TRUE]
                    IN [Save(updateUI(M2)) EXCEPT !.dirty = FALSE]
       ELSE LET M1 == [M EXCEPT !.ui.tagActive = @ \cup {tag}]
                arr == IF val.k = "arr" THEN val.a ELSE <<>>
            IN IF M.filters.k # "obj" THEN [M1 EXCEPT !.threw = TRUE]
               ELSE LET M2 == [M1 EXCEPT !.filters = SetFilterField(@, tag.filter,
                                      JArr(Append(arr, tag.value))),
                                         !.page = 1, !.dirty = TRUE]
                    IN [Save(updateUI(M2)) EXCEPT !.dirty = FALSE]

\* !x
Not(v) == JBool(~Truthy(v))

\* toggleTrackedOnly
toggleTrackedOnly(M) ==
    LET M1 == [M EXCEPT !.filters = SetFilterField(@, "trackedOnly",
                                        Not(FilterField(M.filters, "trackedOnly"))),
                        !.ui.trackedBtn = ~@,
                        !.page = 1]
    IN Save(updateUI(M1))

\* a search box whose handler sets a timeout without clearing the pending one
searchInput_noClearTimeout(M, text) ==
    [M EXCEPT !.filters = SetFilterField(@, "search", JStr(text)),
              !.page = 1,
              !.timers.search = @ + 1]

\* the input handler of the search box: debounce clears the pending timeout
\* and sets a new one, so one debounced updateUI is left pending
searchInput(M, text) ==
    [M EXCEPT !.filters = SetFilterField(@, "search", JStr(text)),
              !.page = 1,
              !.timers.search = 1]

\* a goToPage without the lower limit: Math.min(page, totalPages)
goToPage_noFloor(M, all, p) ==
    LET totalPages == CeilDiv(Len(filterBills(all, M.currentBillType, M.filters, M.trackedBills)),
                              PageSize)
    IN updateUI([M EXCEPT !.page = IF p < totalPages THEN p ELSE totalPages])

\* goToPage(p)
goToPage(M, all, p) ==
    LET totalPages == CeilDiv(Len(filterBills(all, M.currentBillType, M.filters, M.trackedBills)),
                              PageSize)
        clamped == IF p < totalPages THEN p ELSE totalPages
    IN updateUI([M EXCEPT !.page = IF clamped > 1 THEN clamped ELSE 1])

\* an autosave tick that writes whether or not the flag is set
autoSaveTick_always(M) == [Save(M) EXCEPT !.dirty = FALSE]

\* the callback of the autosave interval
autoSaveTick(M) == IF M.dirty THEN [Save(M) EXCEPT !.dirty = FALSE] ELSE M

\* String.prototype.trim, for the blank character ' '
RECURSIVE trim(_)
trim(s) ==
    IF Len(s) = 0 THEN s
    ELSE IF Head(s) = " " THEN trim(Tail(s))
    ELSE IF s[Len(s)] = " " THEN trim(SubSeq(s, 1, Len(s) - 1))
    ELSE s

\* openNoteModal(billId): bill.number is read of the bill found, which throws
\* when no bill has the id
openNoteModal(M, all, billId) ==
    LET M1 == [M EXCEPT !.ui.noteBillId = JStr(billId)]
    IN IF FindIndexById(all, billId) = 0 THEN [M1 EXCEPT !.threw = TRUE]
       ELSE [M1 EXCEPT !.ui.noteModal = TRUE]

\* closeNoteModal
closeNoteModal(M) == [M EXCEPT !.ui.noteModal = FALSE, !.ui.noteBillId = JNull]

\* APP_STATE.userData.name
UserName(u) == IF u.k = "obj" THEN u.name ELSE JUndef

\* the property key a value is converted to
KeyOf(v) == IF v.k = "str" THEN v.s ELSE <<v.k>>

saveNote_appends(M, textarea) ==
    LET key == KeyOf(M.ui.noteBillId)
        noteText == trim(textarea)
        notes == M.userNotes
        entry == [text |-> noteText, user |-> UserName(M.userData)]
        M1 == IF notes.k # "obj" THEN M
              ELSE IF noteText = <<>>
              THEN [M EXCEPT !.userNotes =
                        JObj([x \in (DOMAIN notes.m) \ {key} |-> notes.m[x]])]
              ELSE [M EXCEPT !.userNotes =
                        JObj([x \in (DOMAIN notes.m) \cup {key} |->
                                IF x # key THEN notes.m[x]
                                ELSE IF key \in DOMAIN notes.m
                                THEN Append(notes.m[key], entry)
                                ELSE <<entry>>])]
        M2 == [Save([M1 EXCEPT !.dirty = TRUE]) EXCEPT !.dirty = FALSE]
    IN updateUI(showToast(closeNoteModal(M2), tNoteSaved))

\* saveNote, with the text the textarea holds (note ids and dates are
\* timestamps, left out)
saveNote(M, textarea) ==
    LET key == KeyOf(M.ui.noteBillId)
        noteText == trim(textarea)
        notes == M.userNotes
        M1 == IF notes.k # "obj" THEN M
              ELSE IF noteText = <<>>
              THEN [M EXCEPT !.userNotes =
                        JObj([x \in (DOMAIN notes.m) \ {key} |-> notes.m[x]])]
              ELSE [M EXCEPT !.userNotes =
                        JObj([x \in (DOMAIN notes.m) \cup {key} |->
                                IF x = key
                                THEN <<[text |-> noteText, user |-> UserName(M.userData)]>>
                                ELSE notes.m[x]])]
        M2 == [Save([M1 EXCEPT !.dirty = TRUE]) EXCEPT !.dirty = FALSE]
    IN updateUI(showToast(closeNoteModal(M2), tNoteSaved))

\* initializeUser: the user id is read from its cookie or generated and stored
initializeUser(M) ==
    LET stored == CookieGet(M.cookies, "user_id")
        M1 == IF Truthy(stored) THEN M
              ELSE [M EXCEPT !.cookies["user_id"] = CookieText(JStr(sUserId))]
        userId == IF Truthy(stored) THEN stored ELSE JStr(sUserId)
        M2 == [M1 EXCEPT !.userData.id = userId]
        savedName == CookieGet(M.cookies, "user_name")
    IN IF M2.userData.name \in {JStr(<<>>), JStr(sGuest)} /\ Truthy(savedName) /\ savedName.k = "str"
       THEN [M2 EXCEPT !.userData.name = savedName,
                       !.userData.avatar = JStr(toUpperCase(<<savedName.s[1]>>))]
       ELSE M2

\* StorageManager.load() applied to the machine
Load(M) ==
    LET r == StorageLoad(PersistedOf(M), M.cookies, M.fallback)
    IN [M EXCEPT !.trackedBills = r.S.trackedBills, !.userNotes = r.S.userNotes,
                 !.userData = r.S.userData, !.filters = r.S.filters,
                 !.currentBillType = r.S.currentBillType,
                 !.cookies = r.jar, !.fallback = r.fb,
                 !.saves = IF r.saved THEN @ + 1 ELSE @]

\* a startup that hands the restored bill type to the guard as it is
startupAfterFetch_noForcedRender(M, all, tags) ==
    LET M1 == syncFilterTagUI(M, tags)
        M2 == IF ~Truthy(M1.currentBillType) THEN [M1 EXCEPT !.currentBillType = JStr(sAll)] ELSE M1
    IN checkForSharedBill(handleHashChange(M2))

\* The DOMContentLoaded handler after loadBillsData has resolved (bills already
\* holds the collection): listeners, tag sync, the forced first navigation
startupAfterFetch(M, all, tags) ==
    LET M1 == syncFilterTagUI(M, tags)
        M2 == IF ~Truthy(M1.currentBillType) THEN [M1 EXCEPT !.currentBillType = JStr(sAll)] ELSE M1
        initialType == M2.currentBillType
        M3 == handleHashChange([M2 EXCEPT !.currentBillType = JNull])
        M4 == IF ~Truthy(M3.currentBillType)
              THEN updateUI([M3 EXCEPT !.currentBillType = initialType])
              ELSE M3
    IN checkForSharedBill(M4)

(***************************************************************************)
(* The state machine.                                                      *)
(***************************************************************************)
\* .search counts the pending timeouts of the debounced search render
NoTimers == [highlight |-> <<>>, search |-> 0]
FreshUi == [tagActive |-> {}, trackedBtn |-> FALSE, noteBillId |-> JNull, noteModal |-> FALSE]
NoCache == 0
\* no bill card is being built
NoCard == [bill |-> JNull, tracker |-> JNull]

\* what an operation did
Did(op, arg, ret, noop, M) ==
    [op |-> op, arg |-> arg, ret |-> ret, noop |-> noop, renders |-> M.renders,
     saves |-> M.saves, hashWrites |-> M.hashWrites, navs |-> M.navs,
     toasts |-> M.toasts, threw |-> M.threw, ctx |-> JNull]

Commit(M, lastRec) ==
    /\ trackedBills' = M.trackedBills
    /\ userNotes' = M.userNotes
    /\ userData' = M.userData
    /\ filters' = M.filters
    /\ currentBillType' = M.currentBillType
    /\ currentView' = M.currentView
    /\ page' = M.page
    /\ dirty' = M.dirty
    /\ cookies' = M.cookies
    /\ fallback' = M.fallback
    /\ hash' = M.hash
    /\ hashEvents' = M.hashEvents
    /\ timers' = M.timers
    /\ ui' = M.ui
    /\ last' = lastRec

\* nothing of what a handler can do has been done
Idle == [renders |-> 0, saves |-> 0, hashWrites |-> 0, navs |-> 0, toasts |-> <<>>,
         threw |-> FALSE]

\* APP_STATE as the script constructs it, in a browser holding the given
\* fragment and persisted channels
InitWith(h, jar, fb, cache) ==
    /\ bills = 0
    /\ trackedBills = <<>>
    /\ userNotes = EmptyNotes
    /\ filters = DefaultFilters
    /\ currentBillType = JStr(sAll)
    /\ userData = DefaultUserData
    /\ currentView = "main"
    /\ page = 1
    /\ dirty = FALSE
    /\ cookies = jar
    /\ fallback = fb
    /\ hash = h
    /\ hashEvents = 0
    /\ timers = NoTimers
    /\ ui = FreshUi
    /\ billsCache = cache
    /\ pc = "boot"
    /\ fetches = <<>>
    /\ card = NoCard
    /\ last = Did("construct", JNull, FALSE, FALSE, Idle)

\* the filter tags of the page
TagStatusCommittee == [filter |-> "status", value |-> <<"committee">>]
TagTypeSB == [filter |-> "type", value |-> sSB]
TagCommitteeWays == [filter |-> "committee", value |-> <<"w","a","y","s">>]
TagPriorityHigh == [filter |-> "priority", value |-> <<"high">>]
Tags == {TagStatusCommittee, TagTypeSB, TagCommitteeWays, TagPriorityHigh}

\* DOMContentLoaded, first statement: initializeUser()
StartupBegin ==
    /\ pc = "boot"
    /\ ~CookieGetThrows(cookies, "user_id") /\ ~CookieGetThrows(cookies, "user_name")
    /\ LET M == initializeUser(Cur)
       IN Commit(M, Did("initializeUser", JNull, TRUE, FALSE, M))
    /\ pc' = "load"
    /\ UNCHANGED <<fetches, card, bills, billsCache>>

\* DOMContentLoaded, second statement: StorageManager.load(); the handler then
\* awaits loadBillsData
StartupLoad ==
    /\ pc = "load"
    /\ LET M == Load(Cur)
           r == StorageLoad(PersistedOf(Cur), cookies, fallback)
       IN Commit(M, Did("load", JStr(<<"other">>), r.ret, FALSE, M))
    /\ pc' = "fetch"
    /\ UNCHANGED <<fetches, card, bills, billsCache>>

\* the data URL answers a fetch with the session's document, with an older
\* document that lacks the last bill, or not at all
OlderDoc == NumBills - 1
Responses ==
    {[ok |-> TRUE, doc |-> NumBills], [ok |-> TRUE, doc |-> OlderDoc],
     [ok |-> FALSE, doc |-> NoCache]}

\* loadBillsData once its fetch has settled: the collection it assigns, the
\* document it leaves in the cache and the toast it shows.  Whether a fetch
\* issued later has settled before this one plays no part
loadBillsData_keepsNewest(response, cache, overtaken) ==
    IF response.ok /\ ~overtaken
    THEN [bills |-> response.doc, cache |-> response.doc, toast |-> tLoaded]
    ELSE [bills |-> cache, cache |-> cache,
          toast |-> IF cache # NoCache THEN tCached ELSE tNoData]

\* a loadBillsData that empties the collection whenever its fetch fails
loadBillsData_noFallback(response, cache, overtaken) ==
    IF response.ok
    THEN [bills |-> response.doc, cache |-> response.doc, toast |-> tLoaded]
    ELSE [bills |-> 0, cache |-> cache, toast |-> tNoData]

loadBillsData(response, cache, overtaken) ==
    IF response.ok
    THEN [bills |-> response.doc, cache |-> response.doc, toast |-> tLoaded]
    ELSE [bills |-> cache, cache |-> cache,
          toast |-> IF cache # NoCache THEN tCached ELSE tNoData]

\* loadBillsData resolves (the fetch succeeded or failed) and the
\* DOMContentLoaded handler runs to its end
StartupResume(fetchOk) ==
    /\ pc = "fetch"
    /\ LET L == loadBillsData([ok |-> fetchOk, doc |-> IF fetchOk THEN NumBills ELSE NoCache],
                              billsCache, FALSE)
           M == startupAfterFetch(showToast(Cur, L.toast), Collection(L.bills), Tags)
       IN /\ bills' = L.bills
          /\ billsCache' = L.cache
          /\ Commit(M, [Did("startup", currentBillType, TRUE, FALSE, M)
                           EXCEPT !.ctx = JBool(fetchOk)])
    /\ pc' = "ready"
    /\ UNCHANGED <<fetches, card>>

\* refreshData is called (the refresh control of the page): its fetch is
\* issued behind the ones still in flight
RefreshClick ==
    /\ pc \in {"fetch", "ready"}
    /\ Len(fetches) < MaxFetches
    /\ fetches' = Append(fetches, FALSE)
    /\ last' = Did("refreshData", JNull, TRUE, FALSE, Idle)
    /\ UNCHANGED <<card, bills, trackedBills, userNotes, filters, currentBillType,
                   userData, currentView, page, dirty, cookies, fallback, hash,
                   hashEvents, timers, ui, billsCache, pc>>

\* the i-th fetch in flight settles, in whatever order the network decides:
\* loadBillsData runs to its end and refreshData goes on with updateUI.  Each
\* fetch left in flight that was issued earlier has now been overtaken
RefreshResolve(i, response) ==
    /\ i \in 1..Len(fetches)
    /\ LET L == loadBillsData(response, billsCache, fetches[i])
           M == updateUI(showToast(Cur, L.toast))
       IN /\ bills' = L.bills
          /\ billsCache' = L.cache
          /\ Commit(M, [Did("refreshResolved", JObj(response), L.bills, FALSE, M)
                           EXCEPT !.ctx = JObj([overtaken |-> fetches[i],
                                                replaced |-> bills])])
    /\ fetches' = [j \in 1..(Len(fetches) - 1) |->
                      IF j < i THEN TRUE ELSE fetches[j + 1]]
    /\ UNCHANGED <<card, pc>>

\* the page is loaded again: a new APP_STATE and DOM, the same browser storage
\* and fragment
Reload ==
    /\ pc = "ready"
    /\ bills' = 0
    /\ Commit([Cur EXCEPT !.trackedBills = <<>>, !.userNotes = EmptyNotes,
                          !.userData = DefaultUserData, !.filters = DefaultFilters,
                          !.currentBillType = JStr(sAll), !.currentView = "main",
                          !.page = 1, !.dirty = FALSE, !.hashEvents = 0,
                          !.timers = NoTimers, !.ui = FreshUi],
              Did("construct", JNull, FALSE, FALSE, Idle))
    /\ pc' = "boot"
    /\ fetches' = <<>>
    /\ card' = NoCard
    /\ UNCHANGED billsCache

\* a navigation tab is clicked
TabClick(type) ==
    /\ pc = "ready"
    /\ hashEvents < MaxHashEvents
    /\ LET M == navigateToBillType(Cur, type)
       IN Commit(M, Did("navigate", JStr(type), TRUE, NavGuard(Cur, NormalizeType(type)), M))
    /\ UNCHANGED <<fetches, card, bills, billsCache, pc>>

\* the user changes the fragment (address bar, link, back / forward)
UserSetsHash(h) ==
    /\ pc = "ready"
    /\ hashEvents < MaxHashEvents
    /\ h # hash
    /\ hash' = h
    /\ hashEvents' = hashEvents + 1
    /\ last' = Did("userHash", JStr(h), TRUE, FALSE, Idle)
    /\ UNCHANGED <<fetches, card, bills, trackedBills, userNotes, filters, currentBillType, userData,
                   currentView, page, dirty, cookies, fallback, timers, ui, billsCache, pc>>

\* the operations that can carry out a type transition
NavOps == {"navigate", "hashchange", "highlightBill", "startup"}

\* the last operation made a type transition and wrote the fragment, so the
\* hashchange event now delivered is the one that write dispatched
OwnWritePending == last.op \in NavOps /\ last.navs > 0 /\ last.hashWrites > 0

\* a hashchange event is delivered: handleHashChange reads the fragment of now
HashChangeEvent ==
    /\ pc = "ready"
    /\ hashEvents > 0
    /\ Len(timers.highlight) < MaxTimers
    /\ LET M0 == [Cur EXCEPT !.hashEvents = @ - 1]
           M == handleHashChange(M0)
       IN Commit(M, [Did("hashchange", JStr(hash), TRUE, M = M0, M)
                        EXCEPT !.ctx = JBool(OwnWritePending)])
    /\ UNCHANGED <<fetches, card, bills, billsCache, pc>>

\* the oldest highlightBill timer fires
HighlightTimer ==
    /\ pc = "ready"
    /\ Len(timers.highlight) > 0
    /\ hashEvents < MaxHashEvents
    /\ LET id == Head(timers.highlight)
           M == highlightBill([Cur EXCEPT !.timers.highlight = Tail(@)], Collection(bills), id)
       IN Commit(M, Did("highlightBill", JStr(id), TRUE, FALSE, M))
    /\ UNCHANGED <<fetches, card, bills, billsCache, pc>>

\* showStatsDetail: a stat card is clicked
ShowStatsDetail ==
    /\ pc \in {"fetch", "ready"}
    /\ currentView' = "stats"
    /\ last' = Did("showStatsDetail", JNull, TRUE, FALSE, Idle)
    /\ UNCHANGED <<fetches, card, bills, trackedBills, userNotes, filters, currentBillType, userData,
                   page, dirty, cookies, fallback, hash, hashEvents, timers, ui,
                   billsCache, pc>>

\* the track button of a bill card
TrackClick(billId) ==
    /\ pc = "ready"
    /\ LET M == toggleTrack(Cur, billId)
           again == last.op = "toggleTrack" /\ last.arg = JStr(billId)
       IN Commit(M, [Did("toggleTrack", JStr(billId), TRUE, FALSE, M)
                        EXCEPT !.ctx = JObj([before |-> trackedBills, again |-> again])])
    /\ UNCHANGED <<fetches, card, bills, billsCache, pc>>

\* a filter tag is clicked
TagClick(tag) ==
    /\ pc = "ready"
    /\ LET M == filterTagClick(Cur, tag)
       IN Commit(M, Did("filterTag", JStr(tag.value), ~M.threw, FALSE, M))
    /\ UNCHANGED <<fetches, card, bills, billsCache, pc>>

\* a filter tag that is not active is clicked twice in succession: two turns
\* of the click handler with nothing between them
TagDoubleClick(tag) ==
    /\ pc = "ready"
    /\ tag \notin ui.tagActive
    /\ LET M == filterTagClick(filterTagClick(Cur, tag), tag)
       IN Commit(M, [Did("filterTagTwice", JStr(tag.value), ~M.threw, FALSE, M)
                        EXCEPT !.ctx = JStr(<<tag.filter>>)])
    /\ UNCHANGED <<fetches, card, bills, billsCache, pc>>

\* the tracked-only toggle is clicked
TrackedOnlyClick ==
    /\ pc = "ready"
    /\ LET M == toggleTrackedOnly(Cur)
       IN Commit(M, Did("toggleTrackedOnly", JNull, TRUE, FALSE, M))
    /\ UNCHANGED <<fetches, card, bills, billsCache, pc>>

\* the search box receives input
SearchKey(text) ==
    /\ pc = "ready"
    /\ LET M == searchInput(Cur, text)
       IN Commit(M, [Did("searchInput", JStr(text), TRUE, FALSE, M)
                        EXCEPT !.ctx = JBool(timers.search > 0)])
    /\ UNCHANGED <<fetches, card, bills, billsCache, pc>>

\* the debounce timer of the search box fires: updateUI
SearchRender ==
    /\ pc = "ready"
    /\ timers.search > 0
    /\ LET M == updateUI([Cur EXCEPT !.timers.search = @ - 1])
           burst == IF last.op = "searchInput"
                    THEN JObj([text |-> last.arg, burst |-> last.ctx])
                    ELSE JNull
       IN Commit(M, [Did("searchRender", JNull, TRUE, FALSE, M) EXCEPT !.ctx = burst])
    /\ UNCHANGED <<fetches, card, bills, billsCache, pc>>

\* a pagination button is clicked
PageClick(p) ==
    /\ pc = "ready"
    /\ LET M == goToPage(Cur, Collection(bills), p)
       IN Commit(M, Did("goToPage", JNum(p), TRUE, FALSE, M))
    /\ UNCHANGED <<fetches, card, bills, billsCache, pc>>

\* the note button of a bill card
NoteOpen(billId) ==
    /\ pc = "ready"
    /\ LET M == openNoteModal(Cur, Collection(bills), billId)
       IN Commit(M, Did("openNoteModal", JStr(billId), ~M.threw, FALSE, M))
    /\ UNCHANGED <<fetches, card, bills, billsCache, pc>>

\* the save button of the note modal, with the text typed into the textarea
NoteSave(textarea) ==
    /\ pc = "ready"
    /\ ui.noteModal
    /\ LET M == saveNote(Cur, textarea)
       IN Commit(M, Did("saveNote", JStr(textarea), TRUE, FALSE, M))
    /\ UNCHANGED <<fetches, card, bills, billsCache, pc>>

\* the autosave interval, started by the DOMContentLoaded handler once the
\* data is loaded, ticks
AutoSaveTick ==
    /\ pc = "ready"
    /\ LET M == autoSaveTick(Cur)
       IN Commit(M, [Did("autosave", JNull, TRUE, FALSE, M) EXCEPT !.ctx = JBool(dirty)])
    /\ UNCHANGED <<fetches, card, bills, billsCache, pc>>

\* StorageManager.save() is called
CallSave ==
    /\ pc = "ready"
    /\ LET M == Save(Cur)
       IN Commit(M, Did("save", JNull, TRUE, FALSE, M))
    /\ UNCHANGED <<fetches, card, bills, billsCache, pc>>

\* what went before a call of load(): a save(), the clearing of the fallback
\* after a load() that restored from it, or anything else
LoadContext ==
    IF last.op = "save" THEN <<"afterSave">>
    ELSE IF last.op = "clearFallback" /\ last.arg = JBool(TRUE) THEN <<"afterMigration">>
    ELSE <<"other">>

\* StorageManager.load() is called
CallLoad ==
    /\ pc = "ready"
    /\ LET M == Load(Cur)
           r == StorageLoad(PersistedOf(Cur), cookies, fallback)
       IN Commit(M, Did("load", JStr(LoadContext), r.ret, FALSE, M))
    /\ UNCHANGED <<fetches, card, bills, billsCache, pc>>

\* the cookies of the application state are deleted (CookieManager.delete, or
\* the user clearing cookies while the page is open)
ClearPrimary ==
    /\ pc = "ready"
    /\ \E n \in StateCookies : cookies[n] # Absent
    /\ cookies' = [n \in CookieNames |-> IF n \in StateCookies THEN Absent ELSE cookies[n]]
    /\ last' = Did("clearPrimary", JNull, TRUE, FALSE, Idle)
    /\ UNCHANGED <<fetches, card, bills, trackedBills, userNotes, filters, currentBillType, userData,
                   currentView, page, dirty, fallback, hash, hashEvents, timers, ui,
                   billsCache, pc>>

\* localStorage.removeItem('wa_tracker_state'), by the user or a test; the
\* record says whether it follows a load() that restored from the fallback
ClearFallback ==
    /\ pc = "ready"
    /\ fallback # Absent
    /\ fallback' = Absent
    /\ last' = Did("clearFallback", JBool(last.op = "load" /\ last.ret /\ last.saves = 1),
                   TRUE, FALSE, Idle)
    /\ UNCHANGED <<fetches, card, bills, trackedBills, userNotes, filters, currentBillType, userData,
                   currentView, page, dirty, cookies, hash, hashEvents, timers, ui,
                   billsCache, pc>>

(***************************************************************************)
(* Spec: the application from a fresh browser profile: startup, navigation  *)
(* by tab and by fragment, the bill-detail jump, page reloads.              *)
(***************************************************************************)
sXyz == <<"x","y","z">>
sMixedSB == <<"s","B">>
sAbsentId == <<"z","z">>

\* fragments the user can put in the address bar
Fragments ==
    {toLowerCase(t) : t \in BillTypeKeys}
    \cup {<<>>, sXyz, sMixedSB, <<"A","l","l">>,
          sBillPrefix \o BillId(NumBills - 1)}

\* the types navigateToBillType is asked for: the configured ones, one in mixed
\* case, one that is not configured
NavRequests == BillTypeKeys \cup {sMixedSB, sXyz}

Init == \E h \in {<<>>, <<"s","b">>} : InitWith(h, EmptyJar, Absent, NoCache)

Next ==
    \/ StartupBegin
    \/ StartupLoad
    \/ \E ok \in BOOLEAN : StartupResume(ok)
    \/ Reload
    \/ \E t \in NavRequests : TabClick(t)
    \/ \E h \in Fragments : UserSetsHash(h)
    \/ HashChangeEvent
    \/ HighlightTimer
    \/ ShowStatsDetail
    \/ TagClick(TagTypeSB)
    \/ PageClick(2)

Spec == Init /\ [][Next]_vars

(***************************************************************************)
(* SpecStorage: the persistence layer, in a browser profile that holds what *)
(* an earlier session, the earlier revision or a damaged store left behind. *)
(***************************************************************************)
sCall == <<"c","a","l","l">>
SavedTracked == <<BillId(1), BillId(3)>>
SavedNotes == JObj([x \in {BillId(1)} |-> <<[text |-> sCall, user |-> JStr(sGuest)]>>])
SavedUser == [DefaultUserData EXCEPT !.id = JStr(sUserId)]

\* the filter state as the earlier revision kept it: single strings
LegacyFilters ==
    [DefaultFilters EXCEPT !.status = JStr(<<"committee">>), !.priority = JStr(<<>>),
                           !.committee = JStr(<<>>)]

SessionState == Persisted(SavedTracked, SavedNotes, SavedUser, DefaultFilters, JStr(sHB))
LegacyState == Persisted(SavedTracked, SavedNotes, SavedUser, LegacyFilters, JStr(sSB))

\* cookie jars: empty, written by save(), a tracked cookie that is not JSON, a
\* notes cookie with a malformed percent-escape, a tracked cookie holding null
SessionJar == SaveCookies(SessionState, EmptyJar)
GarbageJar == [EmptyJar EXCEPT !["tracked"] = RawText(sGarbage)]
BadEncJar == [SessionJar EXCEPT !["notes"] = BadEnc]
NullJar == [EmptyJar EXCEPT !["tracked"] = JsonText(JNull)]
StoredJars == {EmptyJar, SessionJar, GarbageJar, BadEncJar, NullJar}

\* fallback documents: none, written by save(), written by the earlier
\* revision, and a text that is not JSON
StoredDocs == {Absent, SaveFallback(SessionState), SaveFallback(LegacyState), RawText(sGarbage)}

InitStorage == \E jar \in StoredJars, fb \in StoredDocs : InitWith(<<>>, jar, fb, NoCache)

NextStorage ==
    \/ StartupBegin
    \/ StartupLoad
    \/ StartupResume(TRUE)
    \/ CallSave
    \/ CallLoad
    \/ ClearFallback
    \/ ClearPrimary
    \/ \E id \in {BillId(1), BillId(2)} : TrackClick(id)
    \/ TagClick(TagStatusCommittee)
    \/ SearchKey(sTax)
    \/ NoteOpen(BillId(2))
    \/ NoteSave(sCall)

SpecStorage == InitStorage /\ [][NextStorage]_vars

(***************************************************************************)
(* SpecDetail: a page opened on a shared-bill link ('#bill-<id>').  The     *)
(* jump to the bill runs a second after startup, by which time the user may *)
(* have changed the view, the filters and the page.                        *)
(***************************************************************************)
\* ids: a Senate bill with a lower-case number, a House bill on the second
\* page of its view, the bill of a type that is not configured, an id no bill has
DetailIds == {BillId(2), BillId(NumBills - 1), BillId(NumBills), sAbsentId}
DetailFragments == {sBillPrefix \o id : id \in DetailIds}

\* search texts: one that half of the bills match, one that all bills of a
\* configured type match (more than a page)
DetailSearches == {sTax, <<"b">>}

InitDetail == \E h \in DetailFragments : InitWith(h, EmptyJar, Absent, NoCache)

NextDetail ==
    \/ StartupBegin
    \/ StartupLoad
    \/ \E ok \in BOOLEAN : StartupResume(ok)
    \/ \E t \in {sAll, sHB} : TabClick(t)
    \/ HashChangeEvent
    \/ HighlightTimer
    \/ ShowStatsDetail
    \/ TagClick(TagStatusCommittee)
    \/ \E text \in DetailSearches : SearchKey(text)
    \/ TrackedOnlyClick
    \/ PageClick(2)

SpecDetail == InitDetail /\ [][NextDetail]_vars

(***************************************************************************)
(* SpecFilter: filterBills() called on a loaded page, for the filter        *)
(* states a session or a store of the earlier revision (single strings, a   *)
(* manual type kept as a string) can leave in APP_STATE.                    *)
(***************************************************************************)
MaxCalls == 2

FilterViews == {JStr(sAll), JStr(sSB), JStr(sHB)}
FilterSearches == {<<>>, sTax, <<"R","O","A","D">>}
FilterStatusLists ==
    {<<>>, << <<"committee">> >>, << <<"floor">>, <<"passed">> >>,
     << <<"passed_origin">> >>, << <<"introduced">> >>}
FilterPriorityLists == {<<>>, << <<"high">> >>}
FilterCommitteeLists ==
    {<<>>, << <<"w","a","y","s">> >>, << <<"w","a","y","s">>, <<"l","a","w">> >>,
     << <<"W","a","y","s">> >>}
FilterManualTypes == {JStr(<<>>), JStr(sSB), JArr(<<sSB>>), JArr(<<>>)}

FilterStates ==
    {[k |-> "obj", search |-> JStr(se), status |-> JArr(st), priority |-> JArr(pr),
      committee |-> JArr(cm), type |-> ty, trackedOnly |-> JBool(tr)] :
        se \in FilterSearches, st \in FilterStatusLists, pr \in FilterPriorityLists,
        cm \in FilterCommitteeLists, ty \in FilterManualTypes, tr \in BOOLEAN}

InitFilter ==
    /\ bills = NumBills
    /\ trackedBills = SavedTracked
    /\ userNotes = EmptyNotes
    /\ filters \in FilterStates
    /\ currentBillType \in FilterViews
    /\ userData = SavedUser
    /\ currentView = "main"
    /\ page = 1
    /\ dirty = FALSE
    /\ cookies = EmptyJar
    /\ fallback = Absent
    /\ hash = <<>>
    /\ hashEvents = 0
    /\ timers = NoTimers
    /\ ui = FreshUi
    /\ billsCache = NoCache
    /\ pc = "ready"
    /\ fetches = <<>>
    /\ card = NoCard
    /\ last = Did("construct", JNull, FALSE, FALSE, Idle)

\* filterBills(), called for the n-th time in a row
CallFilterBills ==
    LET n == IF last.op = "filterBills" THEN last.ctx.n + 1 ELSE 1
        R == filterBillsCall(Cur, Collection(bills))
    IN /\ pc = "ready"
       /\ n <= MaxCalls
       /\ Commit(R.M, [Did("filterBills", JNull, R.filtered, FALSE, R.M) EXCEPT !.ctx = JNum(n)])
       /\ UNCHANGED <<fetches, card, bills, billsCache, pc>>

NextFilter == CallFilterBills

SpecFilter == InitFilter /\ [][NextFilter]_vars

(***************************************************************************)
(* SpecPaging: goToPage on a loaded page, for data documents of 0 to        *)
(* MaxCount bills, in the view of all bills and in the Senate-bill view.    *)
(***************************************************************************)
MaxCount == 57
MaxPageRequest == 10

InitPaging ==
    /\ bills \in 0..MaxCount
    /\ trackedBills = <<>>
    /\ userNotes = EmptyNotes
    /\ filters = DefaultFilters
    /\ currentBillType \in {JStr(sAll), JStr(sSB)}
    /\ userData = SavedUser
    /\ currentView = "main"
    /\ page = 1
    /\ dirty = FALSE
    /\ cookies = EmptyJar
    /\ fallback = Absent
    /\ hash = <<>>
    /\ hashEvents = 0
    /\ timers = NoTimers
    /\ ui = FreshUi
    /\ billsCache = NoCache
    /\ pc = "ready"
    /\ fetches = <<>>
    /\ card = NoCard
    /\ last = Did("construct", JNull, FALSE, FALSE, Idle)

NextPaging == \E p \in -1..MaxPageRequest : PageClick(p)

SpecPaging == InitPaging /\ [][NextPaging]_vars

(***************************************************************************)
(* SpecCards: a bill card is built for a bill of the data document.  The    *)
(* bill carries any status of the two vocabularies (in lower case or not),  *)
(* an unknown one or none, and a history line that has the phrases the      *)
(* scans look for, or none.                                                *)
(***************************************************************************)
CardStatuses ==
    {JUndef,
     JStr(<<>>),
     JStr(<<"e", "n", "a", "c", "t", "e", "d">>),
     JStr(<<"g", "o", "v", "e", "r", "n", "o", "r">>),
     JStr(<<"p", "a", "s", "s", "e", "d", "_", "l", "e", "g", "i", "s", "l", "a", "t", "u", "r", "e">>),
     JStr(<<"o", "p", "p", "o", "s", "i", "t", "e", "_", "f", "l", "o", "o", "r">>),
     JStr(<<"o", "p", "p", "o", "s", "i", "t", "e", "_", "c", "o", "m", "m", "i", "t", "t", "e", "e">>),
     JStr(<<"p", "a", "s", "s", "e", "d", "_", "o", "r", "i", "g", "i", "n">>),
     JStr(<<"f", "l", "o", "o", "r">>),
     JStr(<<"v", "e", "t", "o", "e", "d">>),
     JStr(<<"f", "a", "i", "l", "e", "d">>),
     JStr(<<"p", "a", "s", "s", "e", "d">>),
     JStr(<<"c", "o", "m", "m", "i", "t", "t", "e", "e">>),
     JStr(<<"i", "n", "t", "r", "o", "d", "u", "c", "e", "d">>),
     JStr(<<"p", "r", "e", "f", "i", "l", "e", "d">>),
     JStr(<<"E", "n", "a", "c", "t", "e", "d">>),
     JStr(<<"F", "A", "I", "L", "E", "D">>),
     JStr(<<"d", "r", "a", "f", "t">>)}

CardHistories ==
    {JUndef,
     JStr(<<>>),
     JStr(<<"E", "f", "f", "e", "c", "t", "i", "v", "e", " ", "d", "a", "t", "e", " ", "6", "/", "1">>),
     JStr(<<"G", "o", "v", "e", "r", "n", "o", "r", " ", "s", "i", "g", "n", "e", "d">>),
     JStr(<<"D", "e", "l", "i", "v", "e", "r", "e", "d", " ", "t", "o", " ", "G", "o", "v", "e", "r", "n", "o", "r">>),
     JStr(<<"T", "h", "i", "r", "d", " ", "r", "e", "a", "d", "i", "n", "g", ",", " ", "p", "a", "s", "s", "e", "d">>),
     JStr(<<"T", "h", "i", "r", "d", " ", "r", "e", "a", "d", "i", "n", "g">>),
     JStr(<<"S", "e", "c", "o", "n", "d", " ", "r", "e", "a", "d", "i", "n", "g">>),
     JStr(<<"R", "u", "l", "e", "s", " ", "C", "o", "m", "m", "i", "t", "t", "e", "e">>),
     JStr(<<"P", "l", "a", "c", "e", "d", " ", "o", "n", " ", "c", "a", "l", "e", "n", "d", "a", "r">>),
     JStr(<<"R", "e", "f", "e", "r", "r", "e", "d", " ", "t", "o", " ", "L", "a", "w">>),
     JStr(<<"F", "i", "r", "s", "t", " ", "r", "e", "a", "d", "i", "n", "g">>),
     JStr(<<"O", "n", " ", "f", "l", "o", "o", "r", " ", "c", "a", "l", "e", "n", "d", "a", "r">>),
     JStr(<<"I", "n", " ", "c", "o", "m", "m", "i", "t", "t", "e", "e">>),
     JStr(<<"F", "i", "r", "s", "t", " ", "r", "e", "a", "d", "i", "n", "g", ",", " ", "r", "e", "f", "e", "r", "r", "e", "d", " ", "t", "o", " ", "R", "u", "l", "e", "s", " ", "C", "o", "m", "m", "i", "t", "t", "e", "e">>),
     JStr(<<"P", "a", "s", "s", "e", "d", ";", " ", "e", "f", "f", "e", "c", "t", "i", "v", "e", " ", "d", "a", "t", "e", " ", "7", "/", "1">>)}

CardAgencies == {JUndef, JStr(<<"S", "e", "n", "a", "t", "e">>)}

CardBills ==
    {[status |-> st, historyLine |-> h, originalAgency |-> ag] :
        st \in CardStatuses, h \in CardHistories, ag \in CardAgencies}

InitCards ==
    /\ bills = NumBills
    /\ trackedBills = <<>>
    /\ userNotes = EmptyNotes
    /\ filters = DefaultFilters
    /\ currentBillType = JStr(sAll)
    /\ userData = SavedUser
    /\ currentView = "main"
    /\ page = 1
    /\ dirty = FALSE
    /\ cookies = EmptyJar
    /\ fallback = Absent
    /\ hash = <<>>
    /\ hashEvents = 0
    /\ timers = NoTimers
    /\ ui = FreshUi
    /\ billsCache = NoCache
    /\ pc = "ready"
    /\ fetches = <<>>
    /\ card \in {[bill |-> b, tracker |-> JNull] : b \in CardBills}
    /\ last = Did("construct", JNull, FALSE, FALSE, Idle)

\* createBillCard builds the progress tracker of the bill
BuildCard ==
    /\ pc = "ready"
    /\ card.bill # JNull
    /\ card' = [card EXCEPT !.tracker = buildProgressTracker(card.bill)]
    /\ last' = Did("buildProgressTracker", JNull, getBillStageIndex(card.bill), FALSE, Idle)
    /\ UNCHANGED <<bills, trackedBills, userNotes, filters, currentBillType, userData,
                   currentView, page, dirty, cookies, fallback, hash, hashEvents,
                   timers, ui, billsCache, pc, fetches>>

NextCards == BuildCard

SpecCards == InitCards /\ [][NextCards]_vars

(***************************************************************************)
(* SpecSearch: typing in the search box of a loaded page, in the main view  *)
(* or a statistics view, with pagination buttons and navigation tabs        *)
(* clicked in between.                                                     *)
(***************************************************************************)
SearchTexts == {<<>>, <<"t">>, <<"t","a">>, sTax, <<"b">>}

InitSearch ==
    /\ bills = NumBills
    /\ trackedBills = <<>>
    /\ userNotes = EmptyNotes
    /\ filters = DefaultFilters
    /\ currentBillType = JStr(sAll)
    /\ userData = SavedUser
    /\ currentView \in {"main", "stats"}
    /\ page = 1
    /\ dirty = FALSE
    /\ cookies = EmptyJar
    /\ fallback = Absent
    /\ hash = <<>>
    /\ hashEvents = 0
    /\ timers = NoTimers
    /\ ui = FreshUi
    /\ billsCache = NumBills
    /\ pc = "ready"
    /\ fetches = <<>>
    /\ card = NoCard
    /\ last = Did("construct", JNull, FALSE, FALSE, Idle)

NextSearch ==
    \/ \E text \in SearchTexts : SearchKey(text)
    \/ SearchRender
    \/ \E p \in 1..2 : PageClick(p)
    \/ \E t \in {sAll, sHB} : TabClick(t)
    \/ HashChangeEvent

SpecSearch == InitSearch /\ [][NextSearch]_vars

(***************************************************************************)
(* SpecAutosave: a session opened on a shared-bill link, in which the user  *)
(* tracks a bill, writes a note and changes filters while the autosave      *)
(* interval ticks.                                                         *)
(***************************************************************************)
InitAutosave == InitWith(sBillPrefix \o BillId(2), EmptyJar, Absent, NoCache)

NextAutosave ==
    \/ StartupBegin
    \/ StartupLoad
    \/ StartupResume(TRUE)
    \/ HashChangeEvent
    \/ HighlightTimer
    \/ AutoSaveTick
    \/ TrackClick(BillId(2))
    \/ TagClick(TagStatusCommittee)
    \/ TrackedOnlyClick
    \/ SearchKey(sTax)
    \/ SearchRender
    \/ NoteOpen(BillId(2))
    \/ NoteSave(sCall)
    \/ PageClick(2)

SpecAutosave == InitAutosave /\ [][NextAutosave]_vars

(***************************************************************************)
(* Migration on load: the store holds filter states of every shape the      *)
(* earlier revision or a damaged store can have left, in the cookies or in  *)
(* the fallback document.                                                   *)
(***************************************************************************)
StoredStatusShapes ==
    {JStr(<<"committee">>), JStr(<<>>), JArr(<<>>), JArr(<<<<"committee">>, <<"floor">>>>),
     JNull, JUndef, JNum(0)}
StoredOtherShapes == {JStr(<<"high">>), JStr(<<>>), JArr(<<<<"high">>>>)}
StoredFilters ==
    {[DefaultFilters EXCEPT !.status = st, !.priority = pr, !.committee = co] :
        st \in StoredStatusShapes, pr \in StoredOtherShapes, co \in StoredOtherShapes}
StoredStates ==
    {Persisted(SavedTracked, SavedNotes, SavedUser, f, JStr(sSB)) : f \in StoredFilters}

\* a filters cookie whose text is not JSON, beside cookies written by save()
GarbageFiltersJar == [SessionJar EXCEPT !["filters"] = RawText(sGarbage)]

InitMigrate ==
    \/ \E S \in StoredStates : InitWith(<<>>, SaveCookies(S, EmptyJar), Absent, NoCache)
    \/ \E S \in StoredStates : InitWith(<<>>, EmptyJar, SaveFallback(S), NoCache)
    \/ InitWith(<<>>, GarbageFiltersJar, Absent, NoCache)

NextMigrate ==
    \/ StartupBegin
    \/ StartupLoad
    \/ StartupResume(TRUE)
    \/ CallLoad
    \/ CallSave
    \/ ClearPrimary

SpecMigrate == InitMigrate /\ [][NextMigrate]_vars

(***************************************************************************)
(* Bill-type view: the page is opened on any fragment with any bill type    *)
(* persisted by an earlier session, configured or not.                      *)
(***************************************************************************)
PersistedTypes == {sAll, sHB, <<"h","b">>, sXyz}
TypeJars ==
    {EmptyJar}
    \cup {SaveCookies(Persisted(SavedTracked, SavedNotes, SavedUser, DefaultFilters, JStr(t)),
                      EmptyJar) : t \in PersistedTypes}
TypeFragments ==
    {<<>>, <<"h","b">>, sXyz, sBillPrefix \o BillId(2), sBillPrefix \o sAbsentId}

InitTypes == \E h \in TypeFragments, jar \in TypeJars : InitWith(h, jar, Absent, NoCache)

NextTypes ==
    \/ StartupBegin
    \/ StartupLoad
    \/ \E ok \in BOOLEAN : StartupResume(ok)
    \/ \E t \in {sSB, sXyz} : TabClick(t)
    \/ \E h \in {<<>>, sBillPrefix \o BillId(2)} : UserSetsHash(h)
    \/ HashChangeEvent
    \/ HighlightTimer

SpecTypes == InitTypes /\ [][NextTypes]_vars

(***************************************************************************)
(* Filter tags: the page is ready on a bill-type page, with or without a    *)
(* search text, and the filter tags are clicked, once or twice in a row.    *)
(***************************************************************************)
InitTagPairs ==
    /\ bills = NumBills
    /\ trackedBills = SavedTracked
    /\ userNotes = EmptyNotes
    /\ filters \in {DefaultFilters, [DefaultFilters EXCEPT !.search = JStr(sTax)]}
    /\ currentBillType \in FilterViews
    /\ userData = SavedUser
    /\ currentView = "main"
    /\ page = 1
    /\ dirty = FALSE
    /\ cookies = EmptyJar
    /\ fallback = Absent
    /\ hash = <<>>
    /\ hashEvents = 0
    /\ timers = NoTimers
    /\ ui = FreshUi
    /\ billsCache = NumBills
    /\ pc = "ready"
    /\ fetches = <<>>
    /\ card = NoCard
    /\ last = Did("construct", JNull, FALSE, FALSE, Idle)

NextTagPairs ==
    \/ \E tag \in Tags : TagClick(tag)
    \/ \E tag \in Tags : TagDoubleClick(tag)

SpecTagPairs == InitTagPairs /\ [][NextTagPairs]_vars

(***************************************************************************)
(* Filter controls: the page is opened on a fresh profile or on the filters *)
(* an earlier session saved, tags and the tracked-only toggle are clicked,  *)
(* the bill-type page changes, and a bill-detail jump resets the filters.   *)
(***************************************************************************)
SavedFilters ==
    [DefaultFilters EXCEPT !.status = JArr(<<<<"committee">>>>), !.trackedOnly = JBool(TRUE)]
FilterJar ==
    SaveCookies(Persisted(SavedTracked, SavedNotes, SavedUser, SavedFilters, JStr(sSB)), EmptyJar)

InitControls == \E jar \in {EmptyJar, FilterJar} : InitWith(<<>>, jar, Absent, NoCache)

NextControls ==
    \/ StartupBegin
    \/ StartupLoad
    \/ StartupResume(TRUE)
    \/ \E tag \in {TagStatusCommittee, TagTypeSB} : TagClick(tag)
    \/ TrackedOnlyClick
    \/ \E t \in {sAll, sSB} : TabClick(t)
    \/ UserSetsHash(sBillPrefix \o BillId(1))
    \/ HashChangeEvent
    \/ HighlightTimer

SpecControls == InitControls /\ [][NextControls]_vars

(***************************************************************************)
(* Pages: an earlier session left one bill more than a page tracked; the    *)
(* tracked-only toggle, the pagination buttons, the track buttons of the    *)
(* cards painted, a filter tag and data refreshes are used.                 *)
(***************************************************************************)
ManyTracked == [i \in 1..(PageSize + 1) |-> BillId(i)]
ManyTrackedJar ==
    SaveCookies(Persisted(ManyTracked, EmptyNotes, SavedUser, DefaultFilters, JStr(sAll)),
                EmptyJar)

\* the card of the bill is on the page painted
CardShown(billId) ==
    /\ currentView = "main"
    /\ LET slice == PageSlice(filterBills(Collection(bills), currentBillType, filters,
                                          trackedBills), page)
       IN \E i \in 1..Len(slice) : slice[i].id = billId

InitPages == InitWith(<<>>, ManyTrackedJar, Absent, NoCache)

NextPages ==
    \/ StartupBegin
    \/ StartupLoad
    \/ StartupResume(TRUE)
    \/ TrackedOnlyClick
    \/ \E p \in 1..2 : PageClick(p)
    \/ \E billId \in {BillId(1), BillId(PageSize + 1)} : CardShown(billId) /\ TrackClick(billId)
    \/ TagClick(TagStatusCommittee)
    \/ RefreshClick
    \/ \E response \in Responses : RefreshResolve(1, response)

SpecPages == InitPages /\ [][NextPages]_vars

(***************************************************************************)
(* Notes: the page is ready with notes loaded from an earlier session (a    *)
(* list of one entry, or of two as earlier revisions kept them), the note   *)
(* modal is opened for a bill and saved with a text.                        *)
(***************************************************************************)
sPaddedCall == <<" ">> \o sCall \o <<" ">>
sBlank == <<" ", " ">>
NoteTexts == {<<>>, sBlank, sCall, sPaddedCall, sTax}
OldNote(text) == [text |-> text, user |-> JStr(sGuest)]
OldNoteLists == {<<OldNote(sRoad)>>, <<OldNote(sRoad), OldNote(sCall)>>}
NoteMaps ==
    {JObj([x \in {BillId(1), BillId(2)} |-> IF x = BillId(1) THEN l1 ELSE l2]) :
        l1 \in OldNoteLists, l2 \in OldNoteLists}
    \cup {JObj([x \in {BillId(2)} |-> l2]) : l2 \in OldNoteLists}

InitNotes ==
    /\ bills = NumBills
    /\ trackedBills = <<>>
    /\ userNotes \in NoteMaps
    /\ filters = DefaultFilters
    /\ currentBillType = JStr(sAll)
    /\ userData = SavedUser
    /\ currentView = "main"
    /\ page = 1
    /\ dirty = FALSE
    /\ cookies = EmptyJar
    /\ fallback = Absent
    /\ hash = <<>>
    /\ hashEvents = 0
    /\ timers = NoTimers
    /\ ui = FreshUi
    /\ billsCache = NumBills
    /\ pc = "ready"
    /\ fetches = <<>>
    /\ card = NoCard
    /\ last = Did("construct", JNull, FALSE, FALSE, Idle)

NextNotes ==
    \/ \E billId \in {BillId(1), BillId(2), BillId(3)} : NoteOpen(billId)
    \/ \E textarea \in NoteTexts : NoteSave(textarea)

SpecNotes == InitNotes /\ [][NextNotes]_vars

(***************************************************************************)
(* Data refresh: the page is opened without a fragment, and refreshData is *)
(* called while the startup fetch or earlier refreshes are in flight; the   *)
(* store may hold the document an earlier session cached.  The             *)
(* buttons of a bill card exist for the bills of the collection painted    *)
(* last, which is the loaded one: every resolution ends in updateUI.       *)
(***************************************************************************)
LastBill == BillId(NumBills)
OnCard(billId) == FindIndexById(Collection(bills), billId) > 0

InitData == \E cache \in {NoCache, OlderDoc} : InitWith(<<>>, EmptyJar, Absent, cache)

NextData ==
    \/ StartupBegin
    \/ StartupLoad
    \/ \E fetchOk \in BOOLEAN : StartupResume(fetchOk)
    \/ RefreshClick
    \/ \E i \in 1..MaxFetches, response \in Responses : RefreshResolve(i, response)
    \/ OnCard(LastBill) /\ TrackClick(LastBill)
    \/ OnCard(LastBill) /\ NoteOpen(LastBill)
    \/ NoteSave(sCall)
    \/ TagClick(TagStatusCommittee)
    \/ ShowStatsDetail

SpecData == InitData /\ [][NextData]_vars

(***************************************************************************)
(* Properties.                                                             *)
(***************************************************************************)
\* APP_STATE, but for the bill collection
AppState ==
    <<trackedBills, userNotes, userData, filters, currentBillType, currentView, page, dirty>>

\* the bills the grid shows: the current page of the filtered collection
VisibleBills ==
    PageSlice(filterBills(Collection(bills), currentBillType, filters, trackedBills), page)

\* the persisted part of APP_STATE after a step
PersistedAfter ==
    Persisted(trackedBills', userNotes', userData', filters', currentBillType')

\* C1: save() immediately followed by load() returns true and leaves the
\* tracked-id set, the notes map and the filter state as they were when save()
\* was called.
C1_SaveLoadRoundTrip ==
    [][(last.op = "save" /\ last'.op = "load")
       => /\ last'.ret
          /\ trackedBills' = trackedBills
          /\ userNotes' = userNotes
          /\ filters' = filters]_vars

\* a load() right after a save() of a state with a tracked bill, a note and a
\* search text returned true
C1_Witness ==
    /\ last.op = "load" /\ last.arg = JStr(<<"afterSave">>) /\ last.ret
    /\ SetHas(trackedBills, BillId(2))
    /\ userNotes.k = "obj" /\ BillId(2) \in DOMAIN userNotes.m
    /\ filters.search = JStr(sTax)
    /\ filters.status = JArr(<<(<<"committee">>)>>)

\* the fallback channel holds a document as save() writes it
SavedDocument(fb) ==
    /\ fb.t = "json" /\ fb.v.k = "obj"
    /\ fb.v.trackedBills.k = "arr" /\ fb.v.userNotes.k = "obj"
    /\ fb.v.userData.k = "obj" /\ fb.v.filters.k = "obj"
    /\ fb.v.currentBillType.k = "str"

\* C2: with no key in the cookie channel and a saved document in the fallback,
\* load() returns true, takes tracked ids, notes, user data, filters (in array
\* form) and bill type from the document and writes them to the cookies; a
\* load() that follows the clearing of the fallback returns true and gives the
\* same tracked ids, notes and filters.
C2_FallbackMigrates ==
    [][/\ (/\ last'.op = "load"
           /\ \A n \in StateCookies : cookies[n] = Absent
           /\ SavedDocument(fallback))
          => /\ last'.ret
             /\ trackedBills' = NewSet(fallback.v.trackedBills)
             /\ userNotes' = fallback.v.userNotes
             /\ userData' = fallback.v.userData
             /\ filters' = migrateFiltersToArrays(fallback.v.filters)
             /\ currentBillType' = fallback.v.currentBillType
             /\ CookieGet(cookies', "tracked") = JArr(trackedBills')
             /\ CookieGet(cookies', "notes") = userNotes'
             /\ CookieGet(cookies', "user") = userData'
             /\ CookieGet(cookies', "filters") = filters'
             /\ CookieGet(cookies', "bill_type") = currentBillType'
       /\ (last.op = "clearFallback" /\ last.arg = JBool(TRUE) /\ last'.op = "load")
          => /\ last'.ret
             /\ trackedBills' = trackedBills
             /\ userNotes' = userNotes
             /\ filters' = filters]_vars

\* load() ran after the fallback had been cleared behind a load() that restored
\* a session with tracked bills and a note from it
C2_Witness ==
    /\ last.op = "load" /\ last.arg = JStr(<<"afterMigration">>) /\ last.ret
    /\ fallback = Absent
    /\ trackedBills = SavedTracked
    /\ userNotes = SavedNotes
    /\ cookies["tracked"] = JsonText(JArr(SavedTracked))

\* the three core keys of the cookie channel
CoreCookies == {"tracked", "notes", "user"}

\* what load() must do when the cookie channel is authoritative: write nothing,
\* end in a state that no fallback content changes, and, when it returns true,
\* hold the cookie values, with the defaults for the keys that hold none
PrimaryOnly ==
    /\ cookies' = cookies /\ fallback' = fallback /\ last'.saves = 0
    /\ \A fb2 \in StoredDocs : StorageLoad(PersistedOf(Cur), cookies, fb2).S = PersistedAfter
    /\ last'.ret =>
          /\ trackedBills' = NewSet(Or(CookieGet(cookies, "tracked"), JArr(<<>>)))
          /\ userNotes' = Or(CookieGet(cookies, "notes"), EmptyNotes)
          /\ userData' = Or(CookieGet(cookies, "user"), userData)
          /\ filters' = migrateFiltersToArrays(Or(CookieGet(cookies, "filters"), filters))
          /\ currentBillType' = Or(CookieGet(cookies, "bill_type"), JStr(sAll))

Corrupt(text) == text.t \in {"raw", "badenc"}

\* the cookies save() writes as JSON
JsonCookies == {"tracked", "notes", "user", "filters"}

\* C4: when a cookie that holds JSON cannot be deserialized, or the fallback
\* document load() falls back to cannot, load() raises no error, returns false
\* and leaves APP_STATE as it was.
C4_CorruptIsNoData ==
    [][(/\ last'.op = "load"
        /\ \/ \E n \in JsonCookies : Corrupt(cookies[n])
           \/ (\A n \in StateCookies : cookies[n] = Absent) /\ Corrupt(fallback))
       => /\ ~last'.threw
          /\ ~last'.ret
          /\ AppState' = AppState]_vars

\* C5: navigateToBillType(T) does nothing at all (no change of APP_STATE, no
\* fragment write, no save, no render) exactly when normalised T is the current
\* bill type and the view is 'main'; otherwise it sets the type, sets the view to
\* 'main' and renders.
C5_NavigateNoOpIffGuard ==
    [][last'.op = "navigate" =>
        LET T == NormalizeType(last'.arg.s)
            same == currentBillType = JStr(T) /\ currentView = "main"
            nothing == /\ AppState' = AppState
                       /\ hash' = hash /\ hashEvents' = hashEvents
                       /\ cookies' = cookies /\ fallback' = fallback /\ ui' = ui
                       /\ last'.renders = 0 /\ last'.saves = 0 /\ last'.hashWrites = 0
        IN /\ same <=> nothing
           /\ ~same => /\ currentBillType' = JStr(T)
                       /\ currentView' = "main"
                       /\ last'.renders >= 1]_vars

\* a request for the type already shown, in the main view, was ignored
C5_Witness ==
    /\ last.op = "navigate" /\ last.noop /\ last.renders = 0
    /\ currentBillType = JStr(NormalizeType(last.arg.s)) /\ currentView = "main"

\* C6: handling a fragment that spells a configured type T # 'all' in any letter
\* case, from a state that is not already (T, main), ends in type T, view
\* 'main', page 1, and every visible bill has T as its leading token, case
\* ignored.
C6_FragmentSelectsType ==
    [][LET T == toUpperCase(hash)
           vis == PageSlice(filterBills(Collection(bills'), currentBillType', filters',
                                        trackedBills'), page')
       IN (/\ last'.op \in {"hashchange", "startup"}
           /\ T \in BillTypeKeys \ {sAll}
           /\ ~(currentBillType = JStr(T) /\ currentView = "main"))
          => /\ currentBillType' = JStr(T)
             /\ currentView' = "main"
             /\ page' = 1
             /\ SelectSeq(vis, LAMBDA b : toUpperCase(splitFirst(b.number)) # T) = <<>>]_vars

\* the fragment 'sB' was handled and the Senate bills are shown
C6_Witness ==
    /\ last.op = "hashchange" /\ last.arg = JStr(sMixedSB) /\ ~last.noop
    /\ currentBillType = JStr(sSB) /\ currentView = "main" /\ page = 1
    /\ Len(VisibleBills) = 2

\* C7: a fragment that is no bill reference and does not spell a configured type
\* in upper case (the empty fragment too) is handled without an error and the
\* bill-type view is 'all' afterwards.
C7_UnknownFragmentIsAll ==
    [][(/\ last'.op \in {"hashchange", "startup"}
        /\ ~startsWith(hash, sBillPrefix)
        /\ toUpperCase(hash) \notin BillTypeKeys)
       => /\ ~last'.threw
          /\ currentBillType' = JStr(sAll)]_vars

\* the fragment 'xyz' was handled while Senate bills were shown
C7_Witness ==
    /\ last.op = "hashchange" /\ last.arg = JStr(sXyz) /\ last.navs = 1
    /\ currentBillType = JStr(sAll)

\* C8: a transition to T that was carried out leaves the fragment equal to T in
\* lower case, and a startup with the fragment T in lower case ends with
\* currentBillType = T whatever bill type load() restored.
C8_FragmentRoundTrip ==
    [][/\ (last'.op \in {"navigate", "hashchange", "highlightBill", "startup"} /\ last'.navs > 0)
          => /\ currentBillType'.s \in BillTypeKeys
             /\ hash' = toLowerCase(currentBillType'.s)
       /\ \A T \in BillTypeKeys :
            (last'.op = "startup" /\ hash = toLowerCase(T)) => currentBillType' = JStr(T)]_vars

\* a startup with fragment 'hb' after load() had restored the type SB
C8_Witness ==
    /\ last.op = "startup" /\ last.arg = JStr(sSB)
    /\ hash = toLowerCase(sHB) /\ currentBillType = JStr(sHB)

\* C9: highlightBill(b.id) for a bill b of the collection, from any view,
\* filters and page, ends in the view of b's type when it is configured (in any
\* letter case), with the filters as constructed, in the main view, on the page
\* whose slice of the visible bills holds b.
C9_HighlightJumpsToBill ==
    [][LET all == Collection(bills)
           i == FindIndexById(all, last'.arg.s)
           vis == PageSlice(filterBills(all, currentBillType', filters', trackedBills'), page')
       IN (last'.op = "highlightBill" /\ i > 0)
          => /\ ~last'.threw
             /\ toUpperCase(splitFirst(all[i].number)) \in BillTypeKeys
                    => currentBillType' = JStr(toUpperCase(splitFirst(all[i].number)))
             /\ filters' = DefaultFilters
             /\ currentView' = "main"
             /\ FindIndexById(vis, last'.arg.s) > 0]_vars

\* the jump to the House bill of the second page was made from another view,
\* while a status filter was active (the cookies still hold it)
C9_Witness ==
    /\ last.op = "highlightBill" /\ last.arg = JStr(BillId(NumBills - 1))
    /\ last.navs = 1
    /\ currentBillType = JStr(sHB) /\ currentView = "main" /\ page = 2
    /\ filters = DefaultFilters
    /\ cookies["filters"].v.status = JArr(<<(<<"committee">>)>>)

\* C10: highlightBill for an id no bill of the collection has raises no error,
\* shows the notice 'Bill not found' and leaves the main view shown.
C10_AbsentBillNotice ==
    [][(last'.op = "highlightBill" /\ FindIndexById(Collection(bills), last'.arg.s) = 0)
       => /\ ~last'.threw
          /\ SetHas(last'.toasts, tNotFound)
          /\ currentView' = "main"]_vars

C12_OwnEventIsQuiescent ==
    [][/\ last'.op \in NavOps => last'.hashWrites <= 1
       /\ (OwnWritePending /\ last'.op = "hashchange")
          => /\ last'.noop
             /\ AppState' = AppState
             /\ hash' = hash /\ timers' = timers /\ ui' = ui
             /\ cookies' = cookies /\ fallback' = fallback
             /\ last'.renders = 0 /\ last'.saves = 0 /\ last'.hashWrites = 0
             /\ hashEvents' = hashEvents - 1]_vars

\* the event of a transition's own fragment write was handled and none is left
C12_Witness ==
    /\ last.op = "hashchange" /\ last.ctx = JBool(TRUE) /\ last.noop
    /\ hashEvents = 0
    /\ currentBillType = JStr(sHB) /\ hash = toLowerCase(sHB)

\* C13: filterBills() changes no field of the application state, and two calls
\* in a row return the same bills in the same order.
C13_FilterBillsPureIdempotent ==
    [][last'.op = "filterBills"
       => /\ AppState' = AppState /\ bills' = bills
          /\ cookies' = cookies /\ fallback' = fallback /\ ui' = ui /\ hash' = hash
          /\ last'.renders = 0 /\ last'.saves = 0 /\ last'.toasts = <<>>
          /\ last.op = "filterBills" => last'.ret = last.ret]_vars

\* a second call in a row, under an active search and status filter, returned bills
C13_Witness ==
    /\ last.op = "filterBills" /\ last.ctx = JNum(2)
    /\ filters.search = JStr(sTax) /\ NonEmptyArray(filters.status)
    /\ Len(last.ret) > 0 /\ Len(last.ret) < bills

\* the related statuses the specification lists for a selected status value
ListedStatuses(s) ==
    IF s = <<"committee">> THEN {<<"committee">>, <<"opposite_committee">>}
    ELSE IF s = <<"floor">> THEN {<<"floor">>, <<"opposite_floor">>}
    ELSE IF s \in {<<"passed">>, <<"passed_origin">>}
         THEN {<<"passed">>, <<"passed_origin">>, <<"passed_legislature">>}
    ELSE {s}

\* only the status filter is active, in the view of all bills
OnlyStatusActive ==
    /\ currentBillType = JStr(sAll)
    /\ ~Truthy(filters.search) /\ ~NonEmptyArray(filters.priority)
    /\ ~NonEmptyArray(filters.committee) /\ ~Truthy(filters.type)
    /\ ~Truthy(filters.trackedOnly)

\* C14: with a non-empty status selection S, a bill passes the status step iff
\* its raw status is in the union of the lists of the values of S ('committee'
\* with opposite_committee, 'floor' with opposite_floor, 'passed' and
\* 'passed_origin' with passed, passed_origin and passed_legislature, any
\* other value itself).
C14_StatusAliasUnion ==
    (last.op = "filterBills" /\ NonEmptyArray(filters.status))
    => LET all == Collection(bills)
           S == UNION {ListedStatuses(filters.status.a[i]) : i \in 1..Len(filters.status.a)}
           expected == SelectSeq(all, LAMBDA b : b.status \in S)
       IN /\ StepStatus(all, filters) = expected
          /\ OnlyStatusActive => last.ret = expected

\* 'committee' alone selected: a bill in the opposite chamber's committee is kept
C14_Witness ==
    /\ last.op = "filterBills" /\ OnlyStatusActive
    /\ filters.status = JArr(<< <<"committee">> >>)
    /\ \E i \in 1..Len(last.ret) : last.ret[i].status = <<"opposite_committee">>
    /\ \E i \in 1..Len(last.ret) : last.ret[i].status = <<"committee">>
    /\ Len(last.ret) < bills

\* the k-th step of filterBills, k counted in the order of the code
ApplyStep(k, seq, curType, f, tracked) ==
    CASE k = 1 -> StepBillType(seq, curType)
      [] k = 2 -> StepSearch(seq, f)
      [] k = 3 -> StepStatus(seq, f)
      [] k = 4 -> StepPriority(seq, f)
      [] k = 5 -> StepCommittee(seq, f)
      [] k = 6 -> StepType(seq, f)
      [] OTHER -> StepTrackedOnly(seq, f, tracked)

RECURSIVE ApplySteps(_, _, _, _, _)
ApplySteps(order, seq, curType, f, tracked) ==
    IF order = <<>> THEN seq
    ELSE ApplySteps(Tail(order), ApplyStep(Head(order), seq, curType, f, tracked),
                    curType, f, tracked)

CodeOrder == <<1, 2, 3, 4, 5, 6, 7>>
NumSteps == Len(CodeOrder)

\* the orders tried: the reverse of the code's, its rotations, and the code's
\* order with two neighbouring steps or any two steps exchanged
OtherOrders ==
    {[k \in 1..NumSteps |-> NumSteps + 1 - k]}
    \cup {[k \in 1..NumSteps |-> ((k + r - 1) % NumSteps) + 1] : r \in 1..(NumSteps - 1)}
    \cup {[k \in 1..NumSteps |-> IF k = i THEN j ELSE IF k = j THEN i ELSE k] :
             i \in 1..NumSteps, j \in 1..NumSteps}

\* the bill satisfies every active predicate of the filter state
SatisfiesAll(b) ==
    /\ (Truthy(currentBillType) /\ toLowerCase(currentBillType.s) # sAll)
       => toUpperCase(splitFirst(b.number)) = toUpperCase(currentBillType.s)
    /\ Truthy(filters.search) => includes(b.searchText, toLowerCase(filters.search.s))
    /\ NonEmptyArray(filters.status)
       => \E i \in 1..Len(filters.status.a) : b.status \in ListedStatuses(filters.status.a[i])
    /\ NonEmptyArray(filters.priority)
       => \E i \in 1..Len(filters.priority.a) : b.priority = filters.priority.a[i]
    /\ NonEmptyArray(filters.committee)
       => \E i \in 1..Len(filters.committee.a) :
             includes(toLowerCase(b.committee), filters.committee.a[i])
    /\ Truthy(filters.type) => splitFirst(b.number) = filters.type.s
    /\ Truthy(filters.trackedOnly) => SetHas(trackedBills, b.id)

C16_TypeTagShowsType ==
    (/\ last.op = "filterTag" /\ last.arg = JStr(TagTypeSB.value) /\ last.ret
     /\ TagTypeSB \in ui.tagActive
     /\ currentBillType = JStr(sAll)
     /\ ~Truthy(filters.search) /\ ~NonEmptyArray(filters.status)
     /\ ~NonEmptyArray(filters.priority) /\ ~NonEmptyArray(filters.committee)
     /\ ~Truthy(filters.trackedOnly))
    => filterBills(Collection(bills), currentBillType, filters, trackedBills)
         = SelectSeq(Collection(bills), LAMBDA b : splitFirst(b.number) = TagTypeSB.value)

\* p occurs in t as a run of consecutive characters
IsSubstring(p, t) ==
    \E k \in 0..(Len(t) - Len(p)) : \A j \in 1..Len(p) : t[k + j] = p[j]

\* only the committee filter is active, in the view of all bills
OnlyCommitteeActive ==
    /\ currentBillType = JStr(sAll)
    /\ ~Truthy(filters.search) /\ ~NonEmptyArray(filters.status)
    /\ ~NonEmptyArray(filters.priority) /\ ~Truthy(filters.type)
    /\ ~Truthy(filters.trackedOnly)

\* C17: with a non-empty committee selection a bill is kept iff at least one
\* selected value is a substring of the bill's lower-cased committee field; an
\* empty selection keeps every bill.
C17_CommitteeAnySubstring ==
    last.op = "filterBills"
    => LET all == Collection(bills)
           cm == filters.committee.a
           expected ==
               IF Len(cm) = 0 THEN all
               ELSE SelectSeq(all, LAMBDA b :
                        \E i \in 1..Len(cm) : IsSubstring(cm[i], toLowerCase(b.committee)))
       IN /\ StepCommittee(all, filters) = expected
          /\ OnlyCommitteeActive => last.ret = expected

\* two committees selected: bills of either are kept, though no bill is in both
C17_Witness ==
    /\ last.op = "filterBills" /\ OnlyCommitteeActive
    /\ Len(filters.committee.a) = 2
    /\ \E i \in 1..Len(last.ret) : last.ret[i].committee = <<"W","a","y","s">>
    /\ \E i \in 1..Len(last.ret) : last.ret[i].committee = <<"L","a","w">>

\* the least number t >= 1 of pages of s bills that hold n bills
PagesFor(n, s) == CHOOSE t \in 1..(n + 1) : t * s >= n /\ (t = 1 \/ (t - 1) * s < n)

\* C18: goToPage(p) sets the page to p clamped into [1, max(1, ceil(n/s))], n
\* the number of visible bills and s the page size: no visible bill gives page
\* 1, and 57 visible bills with s = 25 give 3 pages, a request for page 10
\* ending on page 3.
C18_GoToPageClamps ==
    [][last'.op = "goToPage"
       => LET n == Len(filterBills(Collection(bills), currentBillType, filters, trackedBills))
              t == PagesFor(n, PageSize)
              p == last'.arg.n
          IN /\ page' = IF p < 1 THEN 1 ELSE IF p > t THEN t ELSE p
             /\ n = 0 => page' = 1
             /\ (n = 57 /\ PageSize = 25 /\ p = 10) => page' = 3]_vars

\* 57 visible bills, page 10 requested, page 3 shown
C18_Witness ==
    /\ last.op = "goToPage" /\ last.arg = JNum(10)
    /\ Len(filterBills(Collection(bills), currentBillType, filters, trackedBills)) = 57
    /\ page = 3 /\ last.renders = 1

\* the operations that change a filter field or the bill-type view
FilterOrViewOps ==
    {"searchInput", "filterTag", "toggleTrackedOnly", "navigate", "hashchange",
     "startup", "highlightBill"}

\* C19: every operation that changes a filter field or the bill-type view
\* (search input, filter-tag toggle, tracked-only toggle, a type transition
\* that is not a no-op, the filter reset of the bill-detail jump) leaves
\* page 1, but for a jump to a bill that is found, which leaves the page
\* holding that bill.
C19_FilterChangeResetsPage ==
    [][(/\ last'.op \in FilterOrViewOps /\ ~last'.threw
        /\ (filters' # filters \/ currentBillType' # currentBillType))
       => \/ page' = 1
          \/ /\ last'.op = "highlightBill"
             /\ FindIndexById(Collection(bills), last'.arg.s) > 0
             /\ FindIndexById(
                    PageSlice(filterBills(Collection(bills), currentBillType', filters',
                                          trackedBills'), page'),
                    last'.arg.s) > 0]_vars

\* the ids a Set holds, whatever the order they were added in
Members(set) == {set[i] : i \in 1..Len(set)}

\* C20: toggleTrack(id) shows exactly one notice, 'added' when the id was not
\* tracked before the call and 'removed' when it was, and a second call in a
\* row for the same id leaves the set of tracked ids as it was before the first.
C20_ToggleTrackInvolution ==
    [][last'.op = "toggleTrack"
       => /\ ~last'.threw
          /\ last'.toasts = IF last'.arg.s \in Members(trackedBills)
                            THEN <<tRemoved>> ELSE <<tAdded>>
          /\ (last'.arg.s \in Members(trackedBills')) # (last'.arg.s \in Members(trackedBills))
          /\ last'.ctx.m.again
             => /\ Members(trackedBills') = Members(last.ctx.m.before)
                /\ last'.toasts # last.toasts]_vars

\* the second of two calls for an id that was not tracked: 'removed' after
\* 'added', and the ids loaded from the store are tracked as before
C20_Witness ==
    /\ last.op = "toggleTrack" /\ last.arg = JStr(BillId(2)) /\ last.ctx.m.again
    /\ last.toasts = <<tRemoved>>
    /\ Members(last.ctx.m.before) = Members(SavedTracked) \cup {BillId(2)}
    /\ Members(trackedBills) = Members(SavedTracked)

\* the bill differs from the card's at most in the fields that are neither
\* status nor historyLine
SameStatusAndHistory(b) ==
    b.status = card.bill.status /\ b.historyLine = card.bill.historyLine

\* C22: whatever the status and the history line, present or absent,
\* getBillStageIndex returns an integer of -2..8, and the same one for every
\* bill with the same status and historyLine.
C22_StageIndexInRange ==
    last.op = "buildProgressTracker"
    => /\ last.ret \in -2..8
       /\ \A b \in CardBills : SameStatusAndHistory(b) => getBillStageIndex(b) = last.ret

\* a bill without status and history line, at stage 0
C22_Witness ==
    /\ last.op = "buildProgressTracker"
    /\ card.bill.status = JUndef /\ card.bill.historyLine = JUndef
    /\ last.ret = 0

\* the stages the specification gives the statuses of the two vocabularies
ListedStages ==
    {<<<<"p", "r", "e", "f", "i", "l", "e", "d">>, 0>>,
     <<<<"i", "n", "t", "r", "o", "d", "u", "c", "e", "d">>, 1>>,
     <<<<"c", "o", "m", "m", "i", "t", "t", "e", "e">>, 2>>,
     <<<<"f", "l", "o", "o", "r">>, 3>>,
     <<<<"p", "a", "s", "s", "e", "d", "_", "o", "r", "i", "g", "i", "n">>, 4>>,
     <<<<"p", "a", "s", "s", "e", "d">>, 4>>,
     <<<<"o", "p", "p", "o", "s", "i", "t", "e", "_", "c", "o", "m", "m", "i", "t", "t", "e", "e">>, 5>>,
     <<<<"o", "p", "p", "o", "s", "i", "t", "e", "_", "f", "l", "o", "o", "r">>, 6>>,
     <<<<"p", "a", "s", "s", "e", "d", "_", "l", "e", "g", "i", "s", "l", "a", "t", "u", "r", "e">>, 7>>,
     <<<<"g", "o", "v", "e", "r", "n", "o", "r">>, 7>>,
     <<<<"e", "n", "a", "c", "t", "e", "d">>, 8>>,
     <<<<"f", "a", "i", "l", "e", "d">>, -1>>,
     <<<<"v", "e", "t", "o", "e", "d">>, -2>>}

\* C23: for a bill whose status, compared without regard to case, is in the
\* fine-grained or the legacy vocabulary, getBillStageIndex returns the value
\* of that status whatever the history line holds.
C23_StatusTakesPrecedence ==
    last.op = "buildProgressTracker"
    => \A e \in ListedStages :
          LowerOrEmpty(card.bill.status) = e[1] => last.ret = e[2]

\* the rules of the history scan as the specification orders them: the
\* phrases a rule asks for, and the stage it gives
ListedRules ==
    <<[phrases |-> {<<"e", "f", "f", "e", "c", "t", "i", "v", "e", " ", "d", "a", "t", "e">>}, stage |-> 8],
      [phrases |-> {<<"g", "o", "v", "e", "r", "n", "o", "r", " ", "s", "i", "g", "n", "e", "d">>}, stage |-> 8],
      [phrases |-> {<<"d", "e", "l", "i", "v", "e", "r", "e", "d", " ", "t", "o", " ", "g", "o", "v", "e", "r", "n", "o", "r">>}, stage |-> 7],
      [phrases |-> {<<"t", "h", "i", "r", "d", " ", "r", "e", "a", "d", "i", "n", "g">>, <<"p", "a", "s", "s", "e", "d">>}, stage |-> 4],
      [phrases |-> {<<"s", "e", "c", "o", "n", "d", " ", "r", "e", "a", "d", "i", "n", "g">>}, stage |-> 3],
      [phrases |-> {<<"t", "h", "i", "r", "d", " ", "r", "e", "a", "d", "i", "n", "g">>}, stage |-> 3],
      [phrases |-> {<<"r", "u", "l", "e", "s", " ", "c", "o", "m", "m", "i", "t", "t", "e", "e">>}, stage |-> 3],
      [phrases |-> {<<"p", "l", "a", "c", "e", "d", " ", "o", "n">>}, stage |-> 3],
      [phrases |-> {<<"r", "e", "f", "e", "r", "r", "e", "d", " ", "t", "o">>}, stage |-> 2],
      [phrases |-> {<<"f", "i", "r", "s", "t", " ", "r", "e", "a", "d", "i", "n", "g">>}, stage |-> 1]>>

\* the rule applies to the lower-cased history line
RuleMatches(r, history) == \A ph \in r.phrases : IsSubstring(ph, history)

\* the stage of the first listed rule that applies, 0 when none does
FirstRuleStage(history) ==
    LET hits == {i \in 1..Len(ListedRules) : RuleMatches(ListedRules[i], history)}
    IN IF hits = {} THEN 0
       ELSE ListedRules[CHOOSE i \in hits : \A j \in hits : i <= j].stage

\* C24: for a bill whose status is in neither vocabulary (absent or unknown),
\* getBillStageIndex returns the stage of the first rule that matches the
\* lower-cased history line, in the order 'effective date' or 'governor
\* signed' 8, 'delivered to governor' 7, 'third reading' with 'passed' 4,
\* 'second reading' or 'third reading' 3, 'rules committee' or 'placed on' 3,
\* 'referred to' 2, 'first reading' 1, and 0 when no rule matches or there is
\* no history line.
C24_HistoryFallback ==
    (/\ last.op = "buildProgressTracker"
     /\ \A e \in ListedStages : LowerOrEmpty(card.bill.status) # e[1])
    => /\ last.ret = FirstRuleStage(LowerOrEmpty(card.bill.historyLine))
       /\ card.bill.historyLine = JUndef => last.ret = 0

\* an unknown status, and a history line that three rules match: the first wins
C24_Witness ==
    /\ last.op = "buildProgressTracker"
    /\ card.bill.status = JStr(<<"d", "r", "a", "f", "t">>)
    /\ card.bill.historyLine = JStr(<<"F", "i", "r", "s", "t", " ", "r", "e", "a", "d", "i", "n", "g", ",", " ", "r", "e", "f", "e", "r", "r", "e", "d", " ", "t", "o", " ", "R", "u", "l", "e", "s", " ", "C", "o", "m", "m", "i", "t", "t", "e", "e">>)
    /\ last.ret = 3

\* the steps of the tracker built, both sections
TrackerSteps ==
    UNION {{card.tracker[sec].steps[i] : i \in 1..Len(card.tracker[sec].steps)} :
             sec \in 1..Len(card.tracker)}

\* the stages whose node carries the failed or the vetoed marker
AnchorStages == {st.idx : st \in {x \in TrackerSteps : x.cls \in {"failed", "vetoed"}}}

\* the anchor the specification gives a bill of stage index -2 or -1, from its
\* lower-cased history line
ListedAnchor(stageIndex, h) ==
    IF stageIndex = -2 THEN 7
    ELSE IF IsSubstring(<<"t", "h", "i", "r", "d", " ", "r", "e", "a", "d", "i", "n", "g">>, h) \/ IsSubstring(<<"f", "l", "o", "o", "r">>, h) THEN 3
    ELSE IF IsSubstring(<<"c", "o", "m", "m", "i", "t", "t", "e", "e">>, h) \/ IsSubstring(<<"r", "e", "f", "e", "r", "r", "e", "d">>, h) THEN 2
    ELSE 1

\* C25: the anchor stage of a vetoed bill (stage index -2) is 7 whatever the
\* history line holds; that of a failed bill (stage index -1) is 3 if the
\* history line contains 'third reading' or 'floor', else 2 if it contains
\* 'committee' or 'referred', else 1; so it is one of 1, 2, 3 and 7.
C25_AnchorStage ==
    (last.op = "buildProgressTracker" /\ last.ret \in {-1, -2})
    => LET anchor == ListedAnchor(last.ret, LowerOrEmpty(card.bill.historyLine))
       IN /\ AnchorStages = {anchor}
          /\ anchor \in {1, 2, 3, 7}
          /\ \A st \in TrackerSteps :
                st.idx = anchor => st.cls = IF last.ret = -2 THEN "vetoed" ELSE "failed"

\* a failed bill that was in committee: anchored at stage 2
C25_Witness ==
    /\ last.op = "buildProgressTracker" /\ last.ret = -1
    /\ card.bill.historyLine = JStr(<<"I", "n", " ", "c", "o", "m", "m", "i", "t", "t", "e", "e">>)
    /\ AnchorStages = {2}

\* C26: in the tracker of every bill, for every stage k of 0..8: the connector
\* before stage k (drawn for the stages 1-4 and 6-8 only) is 'completed' iff
\* the effective stage index is at least k and the bill is neither failed nor
\* vetoed; the node of stage k is 'failed' or 'vetoed' if the bill is
\* terminated and k is its anchor, else 'completed' if the effective index
\* exceeds k, else, for a bill not terminated whose index is k, 'enacted' when
\* k = 8 and 'active' otherwise, else unmarked.
C26_TrackerMarks ==
    last.op = "buildProgressTracker"
    => LET terminated == last.ret \in {-1, -2}
           anchor == ListedAnchor(last.ret, LowerOrEmpty(card.bill.historyLine))
           eff == IF terminated THEN anchor ELSE last.ret
       IN /\ {st.idx : st \in TrackerSteps} = 0..8
          /\ Cardinality(TrackerSteps) = 9
          /\ \A st \in TrackerSteps :
                LET k == st.idx
                IN /\ k \in {0, 5} <=> st.line = "none"
                   /\ k \notin {0, 5}
                      => (st.line = "completed" <=> (eff >= k /\ ~terminated))
                   /\ st.cls = IF terminated /\ k = anchor
                               THEN (IF last.ret = -1 THEN "failed" ELSE "vetoed")
                               ELSE IF eff > k THEN "completed"
                               ELSE IF ~terminated /\ eff = k
                               THEN (IF k = 8 THEN "enacted" ELSE "active")
                               ELSE ""

\* a bill on the floor of the opposite chamber: stage 6 active, the connectors
\* up to it completed, the one before stage 7 not
C26_Witness ==
    /\ last.op = "buildProgressTracker" /\ last.ret = 6
    /\ \E st \in TrackerSteps : st.idx = 6 /\ st.cls = "active" /\ st.line = "completed"
    /\ \E st \in TrackerSteps : st.idx = 7 /\ st.cls = "" /\ st.line = "plain"
    /\ \E st \in TrackerSteps : st.idx = 4 /\ st.cls = "completed" /\ st.line = "completed"

\* C27: every search-input event sets filters.search and page 1 and calls
\* updateUI not at all; events that arrive while the debounced call is pending
\* leave one call pending; when the quiet window has passed updateUI is called
\* once, with the search text of the last event, and no call is pending after.
C27_DebouncedSearch ==
    [][/\ last'.op = "searchInput"
          => /\ filters'.search = last'.arg /\ page' = 1
             /\ last'.renders = 0 /\ timers'.search = 1
       /\ last'.op = "searchRender"
          => /\ timers.search = 1 /\ timers'.search = 0
             /\ filters' = filters /\ page' = page
             /\ last'.renders = IF currentView = "main" THEN 1 ELSE 0
             /\ last.op = "searchInput" => filters'.search = last.arg]_vars

\* a burst of at least two events ending with the text 'tax', then the one
\* render, of the bills matching 'tax'
C27_Witness ==
    /\ last.op = "searchRender"
    /\ last.ctx = JObj([text |-> JStr(sTax), burst |-> JBool(TRUE)])
    /\ filters.search = JStr(sTax) /\ last.renders = 1 /\ timers.search = 0
    /\ Len(filterBills(Collection(bills), currentBillType, filters, trackedBills)) = NumBills \div 2

\* C29: an autosave tick calls StorageManager.save() iff the dirty flag is set
\* at the tick, and the flag is clear after every tick.
C29_TickSavesIffDirty ==
    [][last'.op = "autosave"
       => /\ (last'.saves = 1) <=> dirty
          /\ last'.saves \in {0, 1}
          /\ ~dirty'
          /\ ~dirty => (cookies' = cookies /\ fallback' = fallback)]_vars

\* a tick with the flag clear, while the search text typed is not in the
\* filters cookie: nothing was written
C29_Witness ==
    /\ last.op = "autosave" /\ last.ctx = JBool(FALSE) /\ last.saves = 0
    /\ filters.search = JStr(sTax)
    /\ cookies["filters"] # CookieText(filters)

\* the operations that change the tracked ids, the notes or the filter state
\* (the debounced render follows a change of the search text)
ChangeOps ==
    {"toggleTrack", "saveNote", "filterTag", "toggleTrackedOnly", "searchInput",
     "searchRender", "highlightBill"}

\* C28: every change of the tracked ids, the notes or the filter state
\* (filter-tag toggle, tracked-only toggle, debounced search text, filter reset
\* of the bill-detail jump) is persisted by the time the next autosave tick
\* has fired with no user input in between: the tracked list, the notes and
\* the filters stored are then those in memory.
C28_ChangePersistedByNextTick ==
    [][(last'.op = "autosave" /\ last.op \in ChangeOps /\ ~last.threw)
       => \A n \in {"tracked", "notes", "filters"} :
             cookies'[n] = SaveCookies(Persisted(trackedBills', userNotes', userData',
                                                 filters', currentBillType'), cookies')[n]]_vars

\* C30: whenever a fetch settles with a document, that document becomes the
\* whole bill collection and the cached document, whatever fetches are still
\* in flight and whether fetches issued later have settled before it; and no
\* settling fetch, of a refresh or of the startup load, changes the tracked
\* ids, the notes, the filters or the bill-type view.
C30_LastResolutionWins ==
    [][/\ (last'.op = "refreshResolved" /\ last'.arg.m.ok)
            => (bills' = last'.arg.m.doc /\ billsCache' = last'.arg.m.doc)
       /\ (last'.op = "startup")
            => (bills' \in {NumBills, billsCache} /\ billsCache' = bills')
       /\ (last'.op \in {"refreshResolved", "startup"})
            => /\ trackedBills' = trackedBills
               /\ userNotes' = userNotes
               /\ filters' = filters
               /\ currentBillType' = currentBillType]_vars

\* a refresh overtaken by one issued later settles last, and its document
\* replaces the other one while a bill stays tracked
C30_Witness ==
    /\ last.op = "refreshResolved"
    /\ last.arg.m.ok
    /\ last.ctx.m.overtaken
    /\ last.ctx.m.replaced # bills
    /\ bills = OlderDoc
    /\ fetches = <<>>
    /\ trackedBills # <<>>

\* C21: a track action or a note action (opening the note modal, saving the
\* note) on an id that is not in the loaded collection leaves the tracked ids
\* and the notes unchanged, shows a toast and throws nothing.
C21_MissingBillIsNoOp ==
    [][LET target == IF last'.op = "saveNote" THEN ui.noteBillId ELSE last'.arg
       IN (/\ last'.op \in {"toggleTrack", "openNoteModal", "saveNote"}
           /\ target.k = "str"
           /\ ~OnCard(target.s))
          => /\ trackedBills' = trackedBills
             /\ userNotes' = userNotes
             /\ last'.toasts # <<>>
             /\ ~last'.threw]_vars

\* the node classes that mark where a bill stands
Markers == {"active", "enacted", "failed", "vetoed"}

\* C40: in the tracker built for any bill exactly one of the nine stage nodes
\* carries a marker (active, enacted, failed or vetoed), every node of a lower
\* stage is 'completed' and every node of a higher stage is unmarked.
C40_OneMarker ==
    last.op = "buildProgressTracker"
    => /\ Cardinality({st \in TrackerSteps : st.cls \in Markers}) = 1
       /\ {st.idx : st \in TrackerSteps} = 0..8
       /\ \A m \in {st \in TrackerSteps : st.cls \in Markers} :
            \A st \in TrackerSteps :
               /\ st.idx < m.idx => st.cls = "completed"
               /\ st.idx > m.idx => st.cls = ""

\* a bill that failed on the floor: the marker is on stage 3, the stages
\* before it are completed, the stages after it unmarked
C40_Witness ==
    /\ last.op = "buildProgressTracker" /\ last.ret = -1
    /\ \E st \in TrackerSteps : st.idx = 3 /\ st.cls = "failed"
    /\ \E st \in TrackerSteps : st.idx = 2 /\ st.cls = "completed"
    /\ \E st \in TrackerSteps : st.idx = 4 /\ st.cls = ""

\* C39: the dirty flag is false whenever a handler turn has ended (track
\* toggle, note save, filter-tag click, search input, tracked-only toggle,
\* page change, navigation), and no autosave tick calls save().
C39_DirtyNeverSeenByTick ==
    /\ ~dirty
    /\ last.op = "autosave" => (last.saves = 0 /\ last.ctx = JBool(FALSE))

\* a tick after a bill was tracked, a tag clicked and a note saved
C39_Witness ==
    /\ last.op = "autosave"
    /\ trackedBills # <<>>
    /\ ui.tagActive # {}
    /\ userNotes.k = "obj" /\ DOMAIN userNotes.m # {}

\* C33: saveNote for the bill the note modal was opened for: with a text that
\* is not empty once trimmed, the bill's note list afterwards holds exactly one
\* entry, carrying the trimmed text, whatever it held before; with a text that
\* trims to the empty string the bill has no entry in the notes map; the lists
\* of all other bills are as before.
C33_SaveNoteReplaces ==
    [][(last'.op = "saveNote" /\ ui.noteBillId.k = "str")
       => LET b == ui.noteBillId.s
              text == trim(last'.arg.s)
          IN /\ userNotes'.k = "obj"
             /\ text # <<>> => /\ b \in DOMAIN userNotes'.m
                               /\ Len(userNotes'.m[b]) = 1
                               /\ userNotes'.m[b][1].text = text
             /\ text = <<>> => b \notin DOMAIN userNotes'.m
             /\ (DOMAIN userNotes'.m) \ {b} = (DOMAIN userNotes.m) \ {b}
             /\ \A x \in (DOMAIN userNotes.m) \ {b} : userNotes'.m[x] = userNotes.m[x]]_vars

\* a padded text was saved for the first bill: its list is the single trimmed
\* entry, and the second bill still has the two entries of the earlier session
C33_Witness ==
    /\ last.op = "saveNote" /\ last.arg = JStr(sPaddedCall)
    /\ {BillId(1), BillId(2)} \subseteq DOMAIN userNotes.m
    /\ userNotes.m[BillId(1)] = <<[text |-> sCall, user |-> UserName(userData)]>>
    /\ userNotes.m[BillId(2)] = <<OldNote(sRoad), OldNote(sCall)>>

\* the filters value load() reads: of the cookie when a core cookie makes the
\* primary channel authoritative, else of the fallback document; the filter
\* state in memory when that value is falsy
LoadedFiltersSource ==
    Or(IF CoreCookieFound(cookies) THEN CookieGet(cookies, "filters")
       ELSE DocField(fallback.v, "filters"),
       filters)

\* C32: after every load() that returns true, filters.status, filters.priority
\* and filters.committee are arrays: of a persisted non-empty string v the
\* array [v], of a persisted array that array, of an empty string or any other
\* value the empty array.
C32_MigrateOnLoad ==
    [][(last'.op = "load" /\ last'.ret = TRUE)
       => \A key \in {"status", "priority", "committee"} :
            LET v == FilterField(LoadedFiltersSource, key)
                w == FilterField(filters', key)
            IN /\ w.k = "arr"
               /\ (v.k = "str" /\ v.s # <<>>) => w = JArr(<<v.s>>)
               /\ v.k = "arr" => w = v
               /\ (v.k # "arr" /\ ~(v.k = "str" /\ v.s # <<>>)) => w = JArr(<<>>)]_vars

C38_BillTypeConfigured ==
    pc = "ready" => (currentBillType.k = "str" /\ currentBillType.s \in BillTypeKeys)

\* C35: clicking a filter tag that is not active twice in succession, for a
\* tag of any kind (status, priority, committee, type), leaves the sequence of
\* visible bills as it was before the first click.
C35_DoubleClickRestores ==
    [][last'.op = "filterTagTwice"
       => filterBills(Collection(bills), currentBillType', filters', trackedBills')
            = filterBills(Collection(bills), currentBillType, filters, trackedBills)]_vars

\* C36: once startup has completed, a filter tag is shown active exactly when
\* its value is a member of its filter field, and the tracked-only toggle is
\* shown active exactly when filters.trackedOnly is true.
C36_ControlsMatchFilters ==
    pc = "ready"
    => /\ \A tag \in Tags :
            tag \in ui.tagActive
            <=> LET v == FilterField(filters, tag.filter)
                IN v.k = "arr" /\ \E i \in 1..Len(v.a) : v.a[i] = tag.value
       /\ ui.trackedBtn <=> Truthy(FilterField(filters, "trackedOnly"))

\* C37: in no reachable state does the click handler of a filter tag throw:
\* every click completes, also the click on a type tag shown active after
\* the bill-detail jump has reset filters.type.
C37_TagClickNeverThrows ==
    last.op = "filterTag" => ~last.threw

\* C34: once the page is ready, pagination.page lies between 1 and
\* max(1, ceil(n / pageSize)), n being the number of visible bills, so the
\* page painted holds a bill whenever there is a visible one.
C34_PageInRange ==
    pc = "ready"
    => LET n == Len(filterBills(Collection(bills), currentBillType, filters, trackedBills))
           pages == CeilDiv(n, PageSize)
       IN /\ page \in 1..(IF pages > 1 THEN pages ELSE 1)
          /\ n > 0 => PageSlice(filterBills(Collection(bills), currentBillType, filters,
                                            trackedBills), page) # <<>>


====
